---- MODULE Spec2Model ----
(***************************************************************************)
(* Forecasting services of stokcerdas (src/ml-forecasting/python):         *)
(* arima_service.py, prophet_service.py and xgboost_service.py.  Each      *)
(* service is one synchronous job: main() reads a JSON request, prepares   *)
(* the series, fits a model through an external library, forecasts and     *)
(* prints one JSON envelope.  The external libraries (pandas, statsmodels, *)
(* prophet, xgboost) are modelled by what they return: every value they    *)
(* produce, and every exception they may raise, is a nondeterministic      *)
(* choice of the action that calls them.                                   *)
(*                                                                         *)
(* Numbers.  Series values are integers; a missing value (NaN / null) is   *)
(* the record Missing.  Forecast values are kept in thousandths so that    *)
(* the factors 0.8, 1.2 and 1.96 * 0.15 of the code stay exact.            *)
(* Confidence levels are percentages (0.95 is 95).  Timestamps are day     *)
(* numbers.                                                                *)
(***************************************************************************)
EXTENDS Integers, Sequences, FiniteSets, TLC

VARIABLES
    backend,          \* which service runs: "ARIMA", "Prophet" or "XGBoost"
    stdin,            \* the raw request text handed to main()
    now,              \* pd.Timestamp.now() of this invocation (a day number)
    pc,               \* main()'s position
    req,              \* input_data, the parsed request (a dict)
    ts,               \* the prepared series / frame (or the empty dict)
    fitted,           \* self.fitted_model / self.model is set
    model_fit,        \* the dict returned by fit_*_model
    forecast_result,  \* the dict returned by forecast / predict
    exc,              \* the exception travelling to main()'s handler
    interval_level,   \* the level (in percent) the interval bounds were computed at
    analysis,         \* stationarity / seasonal / trend / feature analysis results
    library,          \* what the external library did in fit and in forecast
    called,           \* the service methods main() has invoked so far
    locals,           \* the local variables of the service method that is stepped through
    stdout            \* the envelopes printed so far

vars == <<backend, stdin, now, pc, req, ts, fitted, model_fit,
          forecast_result, interval_level, analysis, library, exc, called,
          locals, stdout>>

----------------------------------------------------------------------------
(* Bounds of the model *)

\* number of leading entries of data_points / dates that vary freely
HeadLen == 2
\* largest forecast_steps a request states explicitly
MaxSteps == 2
\* period of the values the fitted model returns over the forecast steps
PatLen == 2
\* the clock reads a day in 0..MaxNow
MaxNow == 1

----------------------------------------------------------------------------
(* Program constants *)

MinPointsARIMA == 10
MinPointsProphet == 10
MinPointsXGBoost == 15
DefaultStepsARIMA == 30
DefaultStepsProphet == 30
DefaultStepsXGBoost == 1
\* confidence_level default 0.95, as a percentage
DefaultConfidence == 95
\* interval_width 0.80 of the default seasonality_config, as a percentage
ProphetIntervalWidth == 80
\* the 'confidence_level': 0.95 written into every XGBoost point
XGBoostConfidence == 95
\* the two-sided normal level of the factor 1.96 of the XGBoost bounds
XGBoostIntervalLevel == 95

Backends == {"ARIMA", "Prophet", "XGBoost"}

----------------------------------------------------------------------------
(* Python values *)

\* {} : the empty dict (also used for None results)
EmptyDict == [k \in {} |-> 0]

\* dict.get(key, default)
Get(d, key, default) == IF key \in DOMAIN d THEN d[key] ELSE default

\* a number of a series, and NaN
Num(x) == [known |-> TRUE, v |-> x]
Missing == [known |-> FALSE, v |-> 0]

\* the entries of dict d under the keys K
Restrict(d, K) == [k \in (DOMAIN d) \cap K |-> d[k]]

Max2(a, b) == IF a >= b THEN a ELSE b

SetMax(S) == CHOOSE m \in S : \A x \in S : x <= m

Reverse(s) == [i \in 1..Len(s) |-> s[Len(s) + 1 - i]]

----------------------------------------------------------------------------
(* pandas: fillna(method='ffill'), fillna(method='bfill'), sort_values *)

RECURSIVE FillFrom(_, _, _)
FillFrom(s, i, last) ==
    IF i > Len(s) THEN <<>>
    ELSE IF s[i].known THEN <<s[i]>> \o FillFrom(s, i + 1, s[i])
    ELSE <<last>> \o FillFrom(s, i + 1, last)

\* propagate the last valid observation forward
ffill(s) == FillFrom(s, 1, Missing)

\* use the next valid observation to fill the gap
bfill(s) == Reverse(ffill(Reverse(s)))

\* the orders sort_values('ds') may return: ascending in ds; the default
\* kind='quicksort' is not stable, so rows with equal ds come in any order
RECURSIVE SortOrders(_, _)
SortOrders(ds, S) ==
    IF S = {} THEN {<<>>}
    ELSE LET least == {i \in S : \A j \in S : ds[i] <= ds[j]}
         IN  UNION {{<<i>> \o rest : rest \in SortOrders(ds, S \ {i})} : i \in least}

----------------------------------------------------------------------------
(* Data preparation *)

MinPoints(b) ==
    IF b = "XGBoost" THEN MinPointsXGBoost
    ELSE IF b = "Prophet" THEN MinPointsProphet ELSE MinPointsARIMA

Raised(type, msg) == [ok |-> FALSE, error_type |-> type, error |-> msg]
Returned(v) == [ok |-> TRUE, value |-> v]

Rows(ds, y) == [i \in 1..Len(y) |-> [ds |-> ds[i], y |-> y[i]]]

\* pd.date_range(start=now - (n-1) days, periods=n, freq='D')
SyntheticDates(n, t) == [i \in 1..n |-> t - (n - 1) + (i - 1)]

\* the RangeIndex of pd.Series(data_points)
RangeIndex(n) == [i \in 1..n |-> i - 1]

\* np.maximum(y, 0): NaN stays NaN
Clamp(y) ==
    [i \in 1..Len(y) |-> IF y[i].known THEN Num(Max2(y[i].v, 0)) ELSE y[i]]

\* ts.fillna(method='ffill').fillna(method='bfill')
FillOnlyForwardMutant(y) == ffill(y)
FillMissing(y) == bfill(ffill(y))

\* RealARIMAService.prepare_data
ARIMA_prepare_data(data_points, dates) ==
    IF dates # <<>> /\ Len(dates) # Len(data_points)
    THEN {Raised("Exception",
                 "Data preparation failed: Length of values does not match length of index")}
    ELSE LET index == IF dates # <<>> THEN dates ELSE RangeIndex(Len(data_points))
             y == FillMissing(data_points)
         IN  IF Len(y) < MinPointsARIMA
             THEN {Raised("Exception",
                          "Data preparation failed: Insufficient data points for ARIMA (minimum 10 required)")}
             ELSE {Returned(Rows(index, y))}

\* RealProphetService.prepare_data
Prophet_prepare_data(data_points, dates, t) ==
    IF dates # <<>> /\ Len(dates) # Len(data_points)
    THEN {Raised("Exception",
                 "Data preparation failed: All arrays must be of the same length")}
    ELSE LET ds == IF dates # <<>> THEN dates
                   ELSE SyntheticDates(Len(data_points), t)
             y == FillMissing(data_points)
         IN  IF Len(y) < MinPointsProphet
             THEN {Raised("Exception",
                          "Data preparation failed: Insufficient data points for Prophet (minimum 10 required)")}
             ELSE {Returned(Rows(ds, Clamp(y)))}

\* RealXGBoostService.prepare_features: the base frame (ds, y)
XGBoost_prepare_features(data_points, dates, t) ==
    IF dates # <<>> /\ Len(dates) # Len(data_points)
    THEN {Raised("Exception",
                 "Feature preparation failed: All arrays must be of the same length")}
    ELSE LET ds == IF dates # <<>> THEN dates
                   ELSE SyntheticDates(Len(data_points), t)
             y == FillMissing(data_points)
         IN  {Returned([k \in 1..Len(y) |-> [ds |-> ds[ord[k]], y |-> y[ord[k]]]])
                : ord \in SortOrders(ds, 1..Len(y))}

\* the results the preparation step of backend b may produce
Prepare(b, data_points, dates, t) ==
    IF b = "ARIMA" THEN ARIMA_prepare_data(data_points, dates)
    ELSE IF b = "Prophet" THEN Prophet_prepare_data(data_points, dates, t)
    ELSE XGBoost_prepare_features(data_points, dates, t)

----------------------------------------------------------------------------
(* Requests *)

\* data_points: HeadLen free leading values, then the value pad repeated
SeriesOf(head, pad, n) ==
    [i \in 1..n |-> IF i <= Len(head) THEN head[i] ELSE pad]

\* dates: HeadLen free leading days (unsorted and repeated days included),
\* then strictly increasing later days
DatesOf(head, n) ==
    [i \in 1..n |-> IF i <= Len(head) THEN head[i] ELSE HeadLen + i]

DataVals == {Missing, Num(-1), Num(2)}

\* the lengths that lie around the minimum of backend b
Lengths(b) == {MinPoints(b) - 1, MinPoints(b)}

\* an optional key of the request: absent, or present with one of the values
Optional(key, values) == {EmptyDict} \cup {key :> v : v \in values}

\* the requests the pipeline is run on
PipelineData(b) ==
    {EmptyDict}
    \cup {"data_points" :> SeriesOf(head, Num(2), n) :
            n \in Lengths(b),
            head \in {[i \in 1..HeadLen |-> Num(2)],
                      [i \in 1..HeadLen |-> IF i = 1 THEN Missing ELSE Num(-1)]}}

PipelineDates(b) ==
    Optional("dates", {DatesOf([i \in 1..HeadLen |-> i], MinPoints(b)),
                       DatesOf([i \in 1..HeadLen |-> i], MinPoints(b) + 1)})

BackendKnobs(b) ==
    IF b = "ARIMA" THEN Optional("seasonal", {TRUE})
    ELSE IF b = "Prophet"
         THEN Optional("seasonality_config", {[interval_width |-> 95]})
         ELSE {EmptyDict}

PipelineRequests(b) ==
    {dp @@ dt @@ fs @@ cl @@ kn :
        dp \in PipelineData(b),
        dt \in PipelineDates(b),
        fs \in Optional("forecast_steps", 0..MaxSteps),
        cl \in Optional("confidence_level", {80}),
        kn \in BackendKnobs(b)}

\* what main() may find on its input
PipelineInputs(b) ==
    {[kind |-> "malformed", body |-> EmptyDict],
     [kind |-> "array", body |-> EmptyDict]}
    \cup {[kind |-> "object", body |-> r] : r \in PipelineRequests(b)}

\* the requests the preparation step alone is run on
PrepareDates(n) ==
    Optional("dates",
             {DatesOf(h, n) : h \in [1..HeadLen -> 1..HeadLen]}
             \cup {DatesOf([i \in 1..HeadLen |-> i], n + 1)})

PrepareRequests(b) ==
    UNION {{("data_points" :> SeriesOf(head, pad, n)) @@ dt :
                head \in [1..HeadLen -> DataVals],
                pad \in DataVals,
                dt \in PrepareDates(n)} : n \in Lengths(b)}

----------------------------------------------------------------------------
(* What the external libraries may do *)

\* str(e) of an exception raised inside a library
LibErrors == {"singular matrix", "optimizer failed to converge"}

\* the stage of fit_*_model at which the library raises: while the model is
\* fitted, or afterwards while the diagnostics and quality metrics of the
\* fitted model are computed (XGBoost scales the features before it fits)
FitStages(b) ==
    IF b = "XGBoost" THEN {"scale", "fit", "diagnostics"}
    ELSE {"fit", "diagnostics"}

\* the type of the scalars sklearn's metrics return
MetricTypes(b) == IF b = "XGBoost" THEN {"float", "numpy.float64"} ELSE {"float"}

FitOutcomes(b) ==
    {[raises |-> FALSE, at |-> "none", msg |-> "", metric_type |-> t] :
        t \in MetricTypes(b)}
    \cup {[raises |-> TRUE, at |-> a, msg |-> m, metric_type |-> "float"] :
            a \in FitStages(b), m \in LibErrors}

LibVals == {-2, 3}

\* what the fitted model yields for one step: values that cannot be
\* extracted, or a point estimate with its interval (the XGBoost regressor
\* yields a point estimate only)
StepOutcomes(b) ==
    {[ok |-> FALSE, mean |-> 0, lower |-> 0, upper |-> 0]}
    \cup {o \in [ok : {TRUE}, mean : LibVals, lower : LibVals, upper : LibVals] :
            IF b = "XGBoost" THEN o.lower = o.mean /\ o.upper = o.mean
            ELSE o.lower <= o.mean /\ o.mean <= o.upper}

\* get_forecast / make_future_dataframe / predict may raise before any step is
\* extracted; XGBoost's predict calls its model inside the loop only.
\* The container type of the interval the model returns:
ConfKinds(b) == IF b = "ARIMA" THEN {"frame", "ndarray", "other"} ELSE {"frame"}

ForecastOutcomes(b) ==
    (IF b = "XGBoost" THEN {}
     ELSE {[raises |-> TRUE, msg |-> "prediction failed", conf_kind |-> "frame",
            steps |-> [i \in 1..PatLen |->
                        [ok |-> FALSE, mean |-> 0, lower |-> 0, upper |-> 0]]]})
    \cup {[raises |-> FALSE, msg |-> "", conf_kind |-> k, steps |-> st] :
            k \in ConfKinds(b),
            st \in [1..PatLen -> StepOutcomes(b)]}

\* the model's values for step i (1-based)
StepAt(lib, i) == lib.steps[((i - 1) % PatLen) + 1]

\* thousandths
Milli(x) == x * 1000

----------------------------------------------------------------------------
(* Fitting adapters *)

FitFailure(msg) ==
    ("success" :> FALSE) @@ ("error" :> msg) @@ ("fallback_used" :> TRUE)

\* RealARIMAService.fit_arima_model: the dict returned and self.fitted_model
ARIMA_fit_arima_model(lib) ==
    IF lib.raises
    THEN [result |-> FitFailure(lib.msg), fitted |-> lib.at = "diagnostics"]
    ELSE [result |-> ("success" :> TRUE) @@ ("model_type" :> "ARIMA"),
          fitted |-> TRUE]

\* RealProphetService.generate_model_diagnostics: its own handler turns an
\* exception into a flagged diagnostics dict
Prophet_generate_model_diagnostics(lib) ==
    IF lib.raises
    THEN ("error" :> lib.msg) @@ ("basic_fit_only" :> TRUE)
    ELSE ("cross_validation" :> FALSE) @@ ("in_sample_only" :> TRUE)

\* RealProphetService.fit_prophet_model
Prophet_fit_prophet_model(lib) ==
    IF lib.raises /\ lib.at # "diagnostics"
    THEN [result |-> FitFailure(lib.msg), fitted |-> FALSE]
    ELSE [result |-> ("success" :> TRUE) @@ ("model_type" :> "Prophet")
                     @@ ("diagnostics" :> Prophet_generate_model_diagnostics(lib)),
          fitted |-> TRUE]

\* the type of val_mae > train_mae * 1.5
ComparisonType(metric_type) ==
    IF metric_type = "numpy.float64" THEN "numpy.bool_" ELSE "bool"

\* RealXGBoostService.fit_xgboost_model: the dict returned and self.model
XGBoost_fit_xgboost_model(lib) ==
    IF lib.raises
    THEN [result |-> FitFailure(lib.msg), fitted |-> lib.at # "scale"]
    ELSE [result |-> ("success" :> TRUE) @@ ("model_type" :> "XGBoost")
                     @@ ("overfitting_check" :>
                            [is_overfitting_type |-> ComparisonType(lib.metric_type)]),
          fitted |-> TRUE]

FitModel(b, lib) ==
    IF b = "ARIMA" THEN ARIMA_fit_arima_model(lib)
    ELSE IF b = "Prophet" THEN Prophet_fit_prophet_model(lib)
    ELSE XGBoost_fit_xgboost_model(lib)

----------------------------------------------------------------------------
(* Forecast generators *)

ForecastFailure(msg) == ("success" :> FALSE) @@ ("error" :> msg)

Point(i, f, l, u) ==
    ("step" :> i) @@ ("forecast" :> f) @@ ("lower_bound" :> l) @@ ("upper_bound" :> u)

\* np.maximum(forecast_values, 0)
NonNegative(x) == Max2(x, 0)

\* one iteration of the loop of RealARIMAService.forecast
ARIMA_point(i, o, conf_kind, confidence_level) ==
    IF ~o.ok
    THEN Point(i, 0, 0, 0) @@ ("confidence_level" :> confidence_level)
         @@ ("error" :> "single positional indexer is out-of-bounds")
    ELSE LET forecast_val == Milli(NonNegative(o.mean))
         IN  IF conf_kind \in {"frame", "ndarray"}
             THEN Point(i, forecast_val, Milli(o.lower), Milli(o.upper))
                  @@ ("confidence_level" :> confidence_level)
             ELSE Point(i, forecast_val, (forecast_val * 8) \div 10,
                        (forecast_val * 12) \div 10)
                  @@ ("confidence_level" :> confidence_level)

\* RealARIMAService.forecast
ARIMA_forecast(steps, confidence_level, lib, is_fitted) ==
    IF ~is_fitted
    THEN Raised("Exception", "Model must be fitted before forecasting")
    ELSE IF lib.raises
    THEN Returned(ForecastFailure(lib.msg))
    ELSE Returned(("success" :> TRUE)
                  @@ ("forecasts" :>
                        [i \in 1..steps |->
                            ARIMA_point(i, StepAt(lib, i), lib.conf_kind, confidence_level)])
                  @@ ("forecast_horizon" :> steps)
                  @@ ("model_type" :> "ARIMA")
                  @@ ("confidence_level" :> confidence_level))

\* one row of the loop of RealProphetService.forecast
Prophet_point(i, o, last_ds) ==
    Point(i, Milli(NonNegative(o.mean)), Milli(NonNegative(o.lower)),
          Milli(NonNegative(o.upper)))
    @@ ("date" :> last_ds + i)

\* RealProphetService.forecast: a row that cannot be formatted raises out of
\* the loop into the method's handler
Prophet_forecast(periods, lib, is_fitted, last_ds) ==
    IF ~is_fitted
    THEN Raised("Exception", "Model must be fitted before forecasting")
    ELSE IF lib.raises
    THEN Returned(ForecastFailure(lib.msg))
    ELSE IF \E i \in 1..periods : ~StepAt(lib, i).ok
    THEN Returned(ForecastFailure("could not convert string to float"))
    ELSE Returned(("success" :> TRUE)
                  @@ ("forecasts" :>
                        [i \in 1..periods |-> Prophet_point(i, StepAt(lib, i), last_ds)])
                  @@ ("forecast_horizon" :> periods)
                  @@ ("model_type" :> "Prophet"))

\* one iteration of the loop of RealXGBoostService.predict:
\* prediction_std = prediction * 0.15, bounds at prediction -+ 1.96 * std
XGBoost_point(i, o) ==
    LET prediction == Milli(o.mean)
        spread == (prediction * 294) \div 1000
    IN  Point(i, prediction, Max2(0, prediction - spread), prediction + spread)
        @@ ("confidence_level" :> XGBoostConfidence)

\* RealXGBoostService.predict: model.predict raising leaves the loop
XGBoost_predict(forecast_steps, lib, is_fitted) ==
    IF ~is_fitted
    THEN Raised("Exception", "Model must be fitted before prediction")
    ELSE IF \E i \in 1..forecast_steps : ~StepAt(lib, i).ok
    THEN Returned(ForecastFailure("feature shape mismatch"))
    ELSE Returned(("success" :> TRUE)
                  @@ ("forecasts" :>
                        [i \in 1..forecast_steps |-> XGBoost_point(i, StepAt(lib, i))])
                  @@ ("forecast_horizon" :> forecast_steps)
                  @@ ("model_type" :> "XGBoost"))

----------------------------------------------------------------------------
(* Envelopes and their serialization *)

Recommendations(b) == <<"recommendations of " \o b>>

\* the result printed when data_points is too short
InsufficientEnvelope(b) ==
    ("success" :> FALSE)
    @@ ("error" :> IF b = "XGBoost"
                   THEN "Insufficient data points (minimum 15 required for XGBoost)"
                   ELSE "Insufficient data points (minimum 10 required)")
    @@ ("required_action" :> "Collect more historical sales data")

\* the result printed when model_fit['success'] is false
FitFailedEnvelope(fit) ==
    ("success" :> FALSE) @@ ("error" :> fit["error"])
    @@ ("fallback_recommendation" :> "Use simpler forecasting method")

\* error_result of main()'s handler
ErrorEnvelope(b, e) ==
    ("success" :> FALSE) @@ ("error" :> e.error) @@ ("error_type" :> e.error_type)
    @@ ("recommendations" :> Recommendations(b))

\* the result compiled after forecasting
SuccessEnvelope(b, n, an, fit, fc) ==
    ("success" :> TRUE)
    @@ ("model_type" :> "Real_" \o b)
    @@ ("data_quality" :>
            (("data_points" :> n)
             @@ Restrict(an, {"stationarity", "seasonal_analysis", "date_range"})))
    @@ Restrict(an, {"trend_analysis", "feature_analysis"})
    @@ ("model_diagnostics" :> fit)
    @@ ("forecasts" :> fc)
    @@ ("recommendations" :> Recommendations(b))

\* the types of the library-native scalars an envelope holds
NativeTypes(env) ==
    (IF "model_diagnostics" \in DOMAIN env
        /\ "overfitting_check" \in DOMAIN env["model_diagnostics"]
     THEN {env["model_diagnostics"]["overfitting_check"].is_overfitting_type}
     ELSE {})
    \cup
    (IF "data_quality" \in DOMAIN env
        /\ "stationarity" \in DOMAIN env["data_quality"]
     THEN {env["data_quality"]["stationarity"].is_stationary_type}
     ELSE {})

\* what json.dumps encodes by itself, and what NumpyEncoder adds
DefaultEncodable == {"bool", "int", "float", "str", "numpy.float64"}
NumpyEncodable ==
    DefaultEncodable \cup {"numpy.bool_", "numpy.int64", "numpy.float32", "numpy.ndarray"}

\* json.dumps(env) / json.dumps(env, cls=NumpyEncoder) raises TypeError
JsonDumpsRaises(env, numpy_encoder) ==
    \E t \in NativeTypes(env) :
        t \notin (IF numpy_encoder THEN NumpyEncodable ELSE DefaultEncodable)

\* the success envelope is printed through NumpyEncoder by arima_service only
SuccessUsesEncoder(b) == b = "ARIMA"

\* except Exception: every exception the pipeline raises derives from Exception
CatchesOnlyValueErrorMutant(error_type) == error_type \in {"ValueError", "JSONDecodeError"}
Catches(error_type) ==
    error_type \in {"Exception", "ValueError", "JSONDecodeError", "AttributeError",
                    "TypeError"}

----------------------------------------------------------------------------
(* main() *)

DefaultSteps(b) ==
    IF b = "ARIMA" THEN DefaultStepsARIMA
    ELSE IF b = "Prophet" THEN DefaultStepsProphet ELSE DefaultStepsXGBoost

\* not data_points or len(data_points) < minimum
OnlyEmptyIsInsufficientMutant(b, data_points) == Len(data_points) = 0
InsufficientData(b, data_points) == Len(data_points) < MinPoints(b)

\* if not model_fit['success']: print the failure and return
IgnoresFitFailureMutant(fit) == FALSE
FitFailed(fit) == ~fit["success"]

NoException == [error_type |-> "", error |-> ""]
NoOutcome == EmptyDict

Raise(type, msg) ==
    /\ exc' = [error_type |-> type, error |-> msg]
    /\ pc' = "except"

\* json.loads(...) and the input_data.get(...) lines
Main_ReadInput ==
    /\ pc = "start"
    /\ IF stdin.kind = "malformed"
       THEN Raise("JSONDecodeError", "Expecting value: line 1 column 1 (char 0)")
            /\ UNCHANGED req
       ELSE IF stdin.kind = "array"
       THEN Raise("AttributeError", "'list' object has no attribute 'get'")
            /\ UNCHANGED req
       ELSE req' = stdin.body /\ pc' = "validate" /\ UNCHANGED exc
    /\ UNCHANGED <<backend, stdin, locals, now, ts, fitted, model_fit, forecast_result,
                   interval_level, analysis, library, called, stdout>>

\* the "Validate input" block
Main_Validate ==
    /\ pc = "validate"
    /\ IF InsufficientData(backend, Get(req, "data_points", <<>>))
       THEN stdout' = Append(stdout, InsufficientEnvelope(backend)) /\ pc' = "done"
       ELSE pc' = "prepare" /\ UNCHANGED stdout
    /\ UNCHANGED <<backend, stdin, locals, now, req, ts, fitted, model_fit, forecast_result,
                   interval_level, analysis, library, exc, called>>

\* the clock is read only to synthesize dates
ClockReads(b, dates) ==
    IF b # "ARIMA" /\ dates = <<>> THEN 0..MaxNow ELSE {now}

\* prepare_data / prepare_features
Main_Prepare ==
    /\ pc = "prepare"
    /\ \E t \in ClockReads(backend, Get(req, "dates", <<>>)) :
       \E r \in Prepare(backend, req["data_points"], Get(req, "dates", <<>>), t) :
          /\ now' = t
          /\ called' = called \cup {"prepare"}
          /\ IF r.ok
             THEN /\ ts' = r.value
                  /\ pc' = IF backend = "ARIMA" THEN "stationarity"
                           ELSE IF backend = "Prophet" THEN "create_model" ELSE "fit"
                  /\ UNCHANGED exc
             ELSE Raise(r.error_type, r.error) /\ UNCHANGED ts
    /\ UNCHANGED <<backend, stdin, locals, req, fitted, model_fit, forecast_result,
                   interval_level, analysis, library, stdout>>

\* RealARIMAService.check_stationarity: a failing test is reported, not raised
Main_CheckStationarity ==
    /\ pc = "stationarity"
    /\ \E adfuller_raises \in BOOLEAN :
          analysis' = analysis @@
              ("stationarity" :>
                  IF adfuller_raises
                  THEN [is_stationary_type |-> "bool", failed |-> TRUE]
                  ELSE [is_stationary_type |-> "numpy.bool_", failed |-> FALSE])
    /\ called' = called \cup {"check_stationarity"}
    /\ pc' = "seasonal"
    /\ UNCHANGED <<backend, stdin, locals, now, req, ts, fitted, model_fit, forecast_result,
                   interval_level, library, exc, stdout>>

\* "if seasonal: arima_service.seasonal_decomposition(...)": __init__ sets the
\* instance attribute seasonal_decomposition to None, which hides the method of
\* that name, so the call raises TypeError
Main_SeasonalAnalysis ==
    /\ pc = "seasonal"
    /\ IF Get(req, "seasonal", FALSE)
       THEN Raise("TypeError", "'NoneType' object is not callable")
            /\ UNCHANGED analysis
       ELSE /\ analysis' = analysis @@ ("seasonal_analysis" :> EmptyDict)
            /\ pc' = "fit"
            /\ UNCHANGED exc
    /\ UNCHANGED <<backend, stdin, locals, now, req, ts, fitted, model_fit, forecast_result,
                   interval_level, library, called, stdout>>

\* RealProphetService.create_prophet_model, called from main()
Main_CreateModel ==
    /\ pc = "create_model"
    /\ \E prophet_raises \in BOOLEAN :
          IF prophet_raises
          THEN Raise("Exception", "Prophet model creation failed: invalid configuration")
               /\ UNCHANGED interval_level
          ELSE /\ interval_level' = Get(Get(req, "seasonality_config", EmptyDict),
                                        "interval_width", ProphetIntervalWidth)
               /\ pc' = "fit"
               /\ UNCHANGED exc
    /\ called' = called \cup {"create_model"}
    /\ UNCHANGED <<backend, stdin, locals, now, req, ts, fitted, model_fit, forecast_result,
                   analysis, library, stdout>>

\* fit_arima_model / fit_prophet_model / fit_xgboost_model
Main_Fit ==
    /\ pc = "fit"
    /\ \E lib \in FitOutcomes(backend) :
          /\ library' = [library EXCEPT !.fit = lib]
          /\ model_fit' = FitModel(backend, lib).result
          /\ fitted' = FitModel(backend, lib).fitted
    /\ called' = called \cup {"fit"}
    /\ pc' = "check_fit"
    /\ UNCHANGED <<backend, stdin, locals, now, req, ts, forecast_result, interval_level,
                   analysis, exc, stdout>>

\* "if not model_fit['success']" after the fit
Main_CheckFit ==
    /\ pc = "check_fit"
    /\ IF FitFailed(model_fit)
       THEN stdout' = Append(stdout, FitFailedEnvelope(model_fit)) /\ pc' = "done"
       ELSE pc' = "forecast" /\ UNCHANGED stdout
    /\ UNCHANGED <<backend, stdin, locals, now, req, ts, fitted, model_fit, forecast_result,
                   interval_level, analysis, library, exc, called>>

\* the steps and the level main() passes on
RequestedSteps(b, r) == Get(r, "forecast_steps", DefaultSteps(b))
RequestedConfidence(r) == Get(r, "confidence_level", DefaultConfidence)

LastDate(rows) == SetMax({rows[i].ds : i \in 1..Len(rows)})
FirstDate(rows) == -SetMax({-rows[i].ds : i \in 1..Len(rows)})

\* what forecast / predict of backend b returns (or raises)
Forecast(b, r, lib, is_fitted, rows) ==
    IF b = "ARIMA"
    THEN ARIMA_forecast(RequestedSteps(b, r), RequestedConfidence(r), lib, is_fitted)
    ELSE IF b = "Prophet"
    THEN Prophet_forecast(RequestedSteps(b, r), lib, is_fitted, LastDate(rows))
    ELSE XGBoost_predict(RequestedSteps(b, r), lib, is_fitted)

\* the level the bounds computed in forecast / predict stand for: ARIMA asks
\* conf_int(alpha = 1 - confidence_level) and falls back to -+20% when the
\* interval has an unknown type; XGBoost uses the factor 1.96; Prophet's
\* interval_width was fixed when the model was created
LevelAfterForecast(b, r, lib, level) ==
    IF b = "ARIMA"
    THEN (IF lib.raises \/ lib.conf_kind = "other" THEN 0 ELSE RequestedConfidence(r))
    ELSE IF b = "XGBoost" THEN XGBoostIntervalLevel
    ELSE level

\* arima_service.forecast / prophet_service.forecast / xgboost_service.predict
Main_Forecast ==
    /\ pc = "forecast"
    /\ \E lib \in ForecastOutcomes(backend) :
          LET r == Forecast(backend, req, lib, fitted, ts)
          IN  /\ library' = [library EXCEPT !.forecast = lib]
              /\ interval_level' = LevelAfterForecast(backend, req, lib, interval_level)
              /\ IF r.ok
                 THEN /\ forecast_result' = r.value
                      /\ pc' = IF backend = "ARIMA" THEN "emit"
                               ELSE IF backend = "Prophet" THEN "trend_analysis"
                               ELSE "feature_analysis"
                      /\ UNCHANGED exc
                 ELSE Raise(r.error_type, r.error) /\ UNCHANGED forecast_result
    /\ called' = called \cup {"forecast"}
    /\ UNCHANGED <<backend, stdin, locals, now, req, ts, fitted, model_fit, analysis, stdout>>

\* RealProphetService.get_trend_analysis, when requested
Main_TrendAnalysis ==
    /\ pc = "trend_analysis"
    /\ analysis' = analysis @@
          ("trend_analysis" :>
              IF Get(req, "include_trend_analysis", TRUE)
              THEN ("success" :> TRUE) ELSE EmptyDict)
    /\ pc' = "emit"
    /\ UNCHANGED <<backend, stdin, locals, now, req, ts, fitted, model_fit, forecast_result,
                   interval_level, library, exc, called, stdout>>

\* RealXGBoostService.get_feature_analysis, when requested
Main_FeatureAnalysis ==
    /\ pc = "feature_analysis"
    /\ analysis' = analysis @@
          ("feature_analysis" :>
              IF Get(req, "include_feature_analysis", TRUE)
              THEN ("success" :> TRUE) ELSE EmptyDict)
    /\ pc' = "emit"
    /\ UNCHANGED <<backend, stdin, locals, now, req, ts, fitted, model_fit, forecast_result,
                   interval_level, library, exc, called, stdout>>

\* df['ds'].min() / df['ds'].max() of the Prophet and XGBoost envelopes
DateRange(b, rows) ==
    IF b = "ARIMA" THEN EmptyDict
    ELSE "date_range" :> [start |-> FirstDate(rows), end |-> LastDate(rows)]

\* "Compile final result" and print(json.dumps(result ...))
Main_Emit ==
    /\ pc = "emit"
    /\ LET result == SuccessEnvelope(backend, Len(req["data_points"]),
                                     analysis @@ DateRange(backend, ts),
                                     model_fit, forecast_result)
       IN  IF JsonDumpsRaises(result, SuccessUsesEncoder(backend))
           THEN Raise("TypeError", "Object of type bool_ is not JSON serializable")
                /\ UNCHANGED stdout
           ELSE stdout' = Append(stdout, result) /\ pc' = "done" /\ UNCHANGED exc
    /\ UNCHANGED <<backend, stdin, locals, now, req, ts, fitted, model_fit, forecast_result,
                   interval_level, analysis, library, called>>

\* "except Exception as e": print the error envelope; an exception that the
\* handler does not catch ends the process with a traceback and no envelope
Main_Except ==
    /\ pc = "except"
    /\ IF Catches(exc.error_type)
       THEN stdout' = Append(stdout, ErrorEnvelope(backend, exc)) /\ pc' = "done"
       ELSE pc' = "crashed" /\ UNCHANGED stdout
    /\ UNCHANGED <<backend, stdin, locals, now, req, ts, fitted, model_fit, forecast_result,
                   interval_level, analysis, library, exc, called>>

----------------------------------------------------------------------------
(* Specifications *)

Fresh ==
    /\ now = 0
    /\ req = EmptyDict
    /\ ts = <<>>
    /\ fitted = FALSE
    /\ model_fit = EmptyDict
    /\ forecast_result = EmptyDict
    /\ interval_level = 0
    /\ analysis = EmptyDict
    /\ library = [fit |-> NoOutcome, forecast |-> NoOutcome]
    /\ exc = NoException
    /\ called = {}
    /\ locals = EmptyDict
    /\ stdout = <<>>

\* one invocation of a service's main() on one request
Init ==
    /\ backend \in Backends
    /\ stdin \in PipelineInputs(backend)
    /\ pc = "start"
    /\ Fresh

Next ==
    \/ Main_ReadInput
    \/ Main_Validate
    \/ Main_Prepare
    \/ Main_CheckStationarity
    \/ Main_SeasonalAnalysis
    \/ Main_CreateModel
    \/ Main_Fit
    \/ Main_CheckFit
    \/ Main_Forecast
    \/ Main_TrendAnalysis
    \/ Main_FeatureAnalysis
    \/ Main_Emit
    \/ Main_Except

Spec == Init /\ [][Next]_vars

\* the preparation step alone, called on a parsed request
PrepareCall ==
    /\ pc = "call_prepare"
    /\ \E t \in ClockReads(backend, Get(req, "dates", <<>>)) :
       \E r \in Prepare(backend, req["data_points"], Get(req, "dates", <<>>), t) :
          /\ now' = t
          /\ called' = called \cup {"prepare"}
          /\ IF r.ok
             THEN ts' = r.value /\ pc' = "returned" /\ UNCHANGED exc
             ELSE /\ exc' = [error_type |-> r.error_type, error |-> r.error]
                  /\ pc' = "raised"
                  /\ UNCHANGED ts
    /\ UNCHANGED <<backend, stdin, locals, req, fitted, model_fit, forecast_result,
                   interval_level, analysis, library, stdout>>

InitPrepare ==
    /\ backend \in Backends
    /\ stdin \in {[kind |-> "object", body |-> r] : r \in PrepareRequests(backend)}
    /\ pc = "call_prepare"
    /\ now = 0
    /\ req = stdin.body
    /\ ts = <<>>
    /\ fitted = FALSE
    /\ model_fit = EmptyDict
    /\ forecast_result = EmptyDict
    /\ interval_level = 0
    /\ analysis = EmptyDict
    /\ library = [fit |-> NoOutcome, forecast |-> NoOutcome]
    /\ exc = NoException
    /\ called = {}
    /\ locals = EmptyDict
    /\ stdout = <<>>

NextPrepare == PrepareCall

SpecPrepare == InitPrepare /\ [][NextPrepare]_vars

----------------------------------------------------------------------------
(* Configuration search and fit: fit_arima_model with auto_arima_selection  *)
(* and simple_arima_grid_search; fit_xgboost_model with                     *)
(* optimize_hyperparameters.  The loops are stepped through one candidate   *)
(* at a time; whether a candidate fits, and the AIC or score it gets, is    *)
(* the library's choice.                                                    *)

None == <<>>

\* floats of the search: a number, float('inf'), NaN
Fin(x) == [kind |-> "finite", v |-> x]
Inf == [kind |-> "inf", v |-> 0]
NaN == [kind |-> "nan", v |-> 0]

\* a < b on floats: a comparison with NaN is false
FloatLess(a, b) ==
    /\ a.kind = "finite"
    /\ \/ b.kind = "inf"
       \/ b.kind = "finite" /\ a.v < b.v

\* fitted_model.aic < best_aic
ImprovesAlwaysMutant(aic, best_aic) == TRUE
ImprovesOnTiesMutant(aic, best_aic) == ~FloatLess(best_aic, aic)
Improves(aic, best_aic) == FloatLess(aic, best_aic)

\* the grid of simple_arima_grid_search
p_values == <<0, 1, 2>>
d_values == <<0, 1>>
q_values == <<0, 1, 2>>
seasonal_orders(seasonal, m) ==
    IF seasonal THEN << <<0, 1, 0, m>>, <<1, 1, 1, m>> >> ELSE <<None>>

GridSize(seasonal, m) ==
    Len(p_values) * Len(d_values) * Len(q_values) * Len(seasonal_orders(seasonal, m))

\* the k-th candidate of "for p: for d: for q: for seasonal_order"
Candidate(k, seasonal, m) ==
    LET ns == Len(seasonal_orders(seasonal, m))
        idx == k - 1
    IN  [order |->
            <<p_values[(idx \div (ns * Len(q_values) * Len(d_values))) + 1],
              d_values[((idx \div (ns * Len(q_values))) % Len(d_values)) + 1],
              q_values[((idx \div ns) % Len(q_values)) + 1]>>,
         seasonal_order |-> seasonal_orders(seasonal, m)[(idx % ns) + 1]]

\* the order both searches fall back to
DefaultOrder == <<1, 1, 1>>

\* the AIC values a fitted candidate may have
AicVals == {-1, 2}

\* ARIMA(...).fit() on one candidate: it raises, or it fits with some AIC
CandidateOutcomes ==
    {[ok |-> FALSE, aic |-> NaN]}
    \cup {[ok |-> TRUE, aic |-> Fin(a)] : a \in AicVals}

\* what the library did over the candidates tried so far: for each AIC value
\* the first candidate that fitted with it (0: none) and whether a later one
\* did too; whether some candidate failed to fit
NoFits ==
    [first |-> [a \in AicVals |-> 0], again |-> [a \in AicVals |-> FALSE],
     failed |-> FALSE, raised |-> FALSE]

RecordFit(h, k, o) ==
    IF ~o.ok THEN [h EXCEPT !.failed = TRUE]
    ELSE IF h.first[o.aic.v] = 0 THEN [h EXCEPT !.first[o.aic.v] = k]
    ELSE [h EXCEPT !.again[o.aic.v] = TRUE]

\* the dict auto_arima_selection returns from its handler
SelectionFallbackWithoutOrderMutant(msg) ==
    ("order" :> None) @@ ("seasonal_order" :> None) @@ ("aic" :> None)
    @@ ("fallback" :> TRUE) @@ ("error" :> msg)
SelectionFallback(msg) ==
    ("order" :> DefaultOrder) @@ ("seasonal_order" :> None) @@ ("aic" :> None)
    @@ ("fallback" :> TRUE) @@ ("error" :> msg)

\* pmdarima's auto_arima: it raises, or it returns a model of some order
AutoArimaOutcomes ==
    {[raises |-> TRUE, msg |-> m, order |-> None, aic |-> NaN] : m \in LibErrors}
    \cup {[raises |-> FALSE, msg |-> "", order |-> o, aic |-> Fin(a)] :
            o \in {<<0, 1, 1>>, <<3, 0, 2>>}, a \in AicVals}

\* the dict simple_arima_grid_search returns
GridSearchResult(best_order, best_seasonal_order, best_aic) ==
    ("order" :> best_order) @@ ("seasonal_order" :> best_seasonal_order)
    @@ ("aic" :> IF best_aic # Inf THEN best_aic ELSE None)
    @@ ("bic" :> None) @@ ("model" :> None) @@ ("method" :> "simple_grid_search")

\* fit_arima_model, order is None: auto_arima_selection(timeseries) up to the
\* call of auto_arima or the start of the grid search
FitArima_Select ==
    /\ pc = "auto_arima_selection"
    /\ IF locals["PMDARIMA_AVAILABLE"]
       THEN \E lib \in AutoArimaOutcomes :
              /\ locals' = ("auto_result" :>
                              IF lib.raises THEN SelectionFallback(lib.msg)
                              ELSE ("order" :> lib.order)
                                   @@ ("seasonal_order" :>
                                          IF locals["seasonal"] THEN <<0, 0, 0, locals["m"]>>
                                          ELSE None)
                                   @@ ("aic" :> lib.aic))
                           @@ locals
              /\ library' = [library EXCEPT !.search.raised = lib.raises]
              /\ pc' = "selected"
       ELSE /\ locals' = ("k" :> 1) @@ ("best_aic" :> Inf)
                         @@ ("best_order" :> DefaultOrder)
                         @@ ("best_seasonal_order" :> None) @@ locals
            /\ pc' = "grid_search"
            /\ UNCHANGED library
    /\ called' = called \cup {"auto_arima_selection"}
    /\ UNCHANGED <<backend, stdin, now, req, ts, fitted, model_fit, forecast_result,
                   interval_level, analysis, exc, stdout>>

\* one candidate of the loops of simple_arima_grid_search: "except: continue"
\* skips a candidate that fails
GridSearch_Try ==
    /\ pc = "grid_search"
    /\ locals["k"] <= GridSize(locals["seasonal"], locals["m"])
    /\ \E o \in CandidateOutcomes :
          LET c == Candidate(locals["k"], locals["seasonal"], locals["m"])
          IN  /\ locals' =
                    ("k" :> locals["k"] + 1)
                    @@ (IF o.ok /\ Improves(o.aic, locals["best_aic"])
                        THEN ("best_aic" :> o.aic) @@ ("best_order" :> c.order)
                             @@ ("best_seasonal_order" :> c.seasonal_order)
                        ELSE EmptyDict)
                    @@ locals
              /\ library' = [library EXCEPT !.search = RecordFit(@, locals["k"], o)]
    /\ UNCHANGED <<backend, stdin, now, pc, req, ts, fitted, model_fit,
                   forecast_result, interval_level, analysis, exc, called, stdout>>

\* the return of simple_arima_grid_search, handed on by auto_arima_selection
GridSearch_Return ==
    /\ pc = "grid_search"
    /\ locals["k"] > GridSize(locals["seasonal"], locals["m"])
    /\ locals' = ("auto_result" :>
                     GridSearchResult(locals["best_order"],
                                      locals["best_seasonal_order"],
                                      locals["best_aic"]))
                 @@ locals
    /\ pc' = "selected"
    /\ UNCHANGED <<backend, stdin, now, req, ts, fitted, model_fit, forecast_result,
                   interval_level, analysis, library, exc, called, stdout>>

\* fit_arima_model after the selection: ARIMA(timeseries, order, ...).fit()
\* and the diagnostics
FitArima_Fit ==
    /\ pc = "selected"
    /\ \E lib \in FitOutcomes("ARIMA") :
          /\ library' = [library EXCEPT !.fit = lib]
          /\ model_fit' = IF lib.raises THEN ARIMA_fit_arima_model(lib).result
                          ELSE ARIMA_fit_arima_model(lib).result
                               @@ ("order" :> locals["auto_result"]["order"])
                               @@ ("seasonal_order" :>
                                      locals["auto_result"]["seasonal_order"])
          /\ fitted' = ARIMA_fit_arima_model(lib).fitted
    /\ locals' = ("order" :> locals["auto_result"]["order"])
                 @@ ("seasonal_order" :> locals["auto_result"]["seasonal_order"])
                 @@ locals
    /\ called' = called \cup {"fit"}
    /\ pc' = "fitted"
    /\ UNCHANGED <<backend, stdin, now, req, ts, forecast_result, interval_level,
                   analysis, exc, stdout>>

\* the presets of optimize_hyperparameters (learning_rate in hundredths)
param_grid ==
    << [learning_rate |-> 5, max_depth |-> 4, n_estimators |-> 150],
       [learning_rate |-> 10, max_depth |-> 6, n_estimators |-> 100],
       [learning_rate |-> 15, max_depth |-> 8, n_estimators |-> 80] >>

\* the default hyperparameters of create_xgboost_model (fractions in hundredths)
DefaultHyperparameters ==
    [objective |-> "reg:squarederror", learning_rate |-> 10, max_depth |-> 6,
     min_child_weight |-> 1, subsample |-> 80, colsample_bytree |-> 80,
     n_estimators |-> 100, random_state |-> 42, tree_method |-> "hist",
     verbosity |-> 0]

\* create_xgboost_model(hyperparameters): None stands for the default
create_xgboost_model(hyperparameters) ==
    IF hyperparameters = None THEN DefaultHyperparameters ELSE hyperparameters

\* the regressor optimize_hyperparameters scores for one preset:
\* XGBRegressor(objective=..., subsample=0.8, colsample_bytree=0.8,
\* random_state=42, verbosity=0, **params)
cross_validation_model(params) ==
    [objective |-> "reg:squarederror", subsample |-> 80, colsample_bytree |-> 80,
     random_state |-> 42, verbosity |-> 0,
     learning_rate |-> params.learning_rate, max_depth |-> params.max_depth,
     n_estimators |-> params.n_estimators]

\* len(X_train) must exceed this for the optimization to run
OptimizeMinTrain == 30

\* split_idx = int(len(X) * 0.8)
SplitIndex(n) == (n * 8) \div 10

\* "if optimize_params and len(X_train) > 30"
RunsOptimizationFromThirtyMutant(optimize_params, n_train) ==
    optimize_params /\ n_train >= OptimizeMinTrain
RunsOptimization(optimize_params, n_train) ==
    optimize_params /\ n_train > OptimizeMinTrain

\* avg_score < best_score
ScoreImproves(avg_score, best_score) == FloatLess(avg_score, best_score)

\* cross_val_score for one preset: it raises, or the mean of the negated scores
\* is a number, or NaN when a fold could not be scored (error_score = nan)
ScoreVals == {1, 2}
ScoreOutcomes ==
    {[raises |-> TRUE, score |-> NaN]}
    \cup {[raises |-> FALSE, score |-> s] : s \in {NaN} \cup {Fin(x) : x \in ScoreVals}}

\* the frames fit_xgboost_model is run on: the shortest frame main() lets
\* through, and the frames around the threshold of the optimization
FrameRows == {MinPointsXGBoost, 38, 39}

\* fit_xgboost_model: the time-ordered split and the choice to optimize
FitXGBoost_Split ==
    /\ pc = "split"
    /\ LET split_idx == SplitIndex(locals["rows"])
           n_train == split_idx
           n_val == locals["rows"] - split_idx
       IN  /\ locals' = ("split_idx" :> split_idx) @@ ("n_train" :> n_train)
                        @@ ("n_val" :> n_val)
                        @@ (IF RunsOptimization(locals["optimize_params"], n_train)
                            THEN ("k" :> 1) @@ ("best_score" :> Inf)
                            ELSE EmptyDict)
                        @@ ("best_params" :> None)
                        @@ locals
           /\ pc' = IF RunsOptimization(locals["optimize_params"], n_train)
                    THEN "optimize" ELSE "create_model"
    /\ UNCHANGED <<backend, stdin, now, req, ts, fitted, model_fit, forecast_result,
                   interval_level, analysis, library, exc, called, stdout>>

\* one preset of the loop of optimize_hyperparameters; an exception leaves the
\* method through its handler, which returns (None, inf)
Optimize_Score ==
    /\ pc = "optimize"
    /\ locals["k"] <= Len(param_grid)
    /\ \E o \in ScoreOutcomes :
          /\ library' = [library EXCEPT !.search.scores = Append(@, o.score),
                                        !.search.raised = o.raises]
          /\ IF o.raises
             THEN /\ locals' = ("best_params" :> None) @@ ("best_score" :> Inf)
                               @@ ("model" :> cross_validation_model(
                                                 param_grid[locals["k"]]))
                               @@ locals
                  /\ pc' = "create_model"
             ELSE /\ locals' =
                        ("k" :> locals["k"] + 1)
                        @@ ("model" :> cross_validation_model(
                                          param_grid[locals["k"]]))
                        @@ (IF ScoreImproves(o.score, locals["best_score"])
                            THEN ("best_score" :> o.score)
                                 @@ ("best_params" :> param_grid[locals["k"]])
                            ELSE EmptyDict)
                        @@ locals
                  /\ pc' = "optimize"
    /\ called' = called \cup {"optimize_hyperparameters"}
    /\ UNCHANGED <<backend, stdin, now, req, ts, fitted, model_fit, forecast_result,
                   interval_level, analysis, exc, stdout>>

\* "return best_params, best_score"
Optimize_Return ==
    /\ pc = "optimize"
    /\ locals["k"] > Len(param_grid)
    /\ pc' = "create_model"
    /\ UNCHANGED <<backend, stdin, now, req, ts, fitted, model_fit, forecast_result,
                   interval_level, analysis, library, locals, exc, called, stdout>>

\* "if best_params: create_xgboost_model(best_params) else create_xgboost_model()",
\* then self.model.fit(...) and the diagnostics
FitXGBoost_Fit ==
    /\ pc = "create_model"
    /\ locals' = ("hyperparameters" :> create_xgboost_model(locals["best_params"]))
                 @@ locals
    /\ \E lib \in {l \in FitOutcomes("XGBoost") : l.at # "scale"} :
          /\ library' = [library EXCEPT !.fit = lib]
          /\ model_fit' =
                IF lib.raises THEN XGBoost_fit_xgboost_model(lib).result
                ELSE XGBoost_fit_xgboost_model(lib).result
                     @@ ("training_samples" :> locals["n_train"])
                     @@ ("validation_samples" :> locals["n_val"])
                     @@ ("hyperparameters" :>
                            create_xgboost_model(locals["best_params"]))
          /\ fitted' = XGBoost_fit_xgboost_model(lib).fitted
    /\ called' = called \cup {"fit"}
    /\ pc' = "fitted"
    /\ UNCHANGED <<backend, stdin, now, req, ts, forecast_result, interval_level,
                   analysis, exc, stdout>>

\* the calls of fit_arima_model(timeseries) and of auto_arima_selection with a
\* seasonal period, with and without pmdarima installed; the calls of
\* fit_xgboost_model(df, optimize_params)
SelectCalls(b) ==
    IF b = "ARIMA"
    THEN {("PMDARIMA_AVAILABLE" :> a) @@ ("seasonal" :> s)
          @@ ("m" :> IF s THEN 7 ELSE 1) : a \in BOOLEAN, s \in BOOLEAN}
    ELSE {("rows" :> n) @@ ("optimize_params" :> o) : n \in FrameRows, o \in BOOLEAN}

InitSelect ==
    /\ backend \in {"ARIMA", "XGBoost"}
    /\ stdin = [kind |-> "object", body |-> EmptyDict]
    /\ locals \in SelectCalls(backend)
    /\ pc = IF backend = "ARIMA" THEN "auto_arima_selection" ELSE "split"
    /\ library = [fit |-> NoOutcome, forecast |-> NoOutcome,
                  search |-> IF backend = "ARIMA" THEN NoFits
                             ELSE [scores |-> <<>>, raised |-> FALSE]]
    /\ now = 0
    /\ req = EmptyDict
    /\ ts = <<>>
    /\ fitted = FALSE
    /\ model_fit = EmptyDict
    /\ forecast_result = EmptyDict
    /\ interval_level = 0
    /\ analysis = EmptyDict
    /\ exc = NoException
    /\ called = {}
    /\ stdout = <<>>

NextSelect ==
    \/ FitArima_Select
    \/ GridSearch_Try
    \/ GridSearch_Return
    \/ FitArima_Fit
    \/ FitXGBoost_Split
    \/ Optimize_Score
    \/ Optimize_Return
    \/ FitXGBoost_Fit

SpecSelect == InitSelect /\ [][NextSelect]_vars

----------------------------------------------------------------------------
(* Diagnostics of a fitted model: MAPE of the three services, MAE and the   *)
(* overfitting check of fit_xgboost_model.  Actual and predicted values are *)
(* integers; means and ratios are exact fractions.                          *)

Rat(n, d) == [num |-> n, den |-> d]
RatAdd(x, y) == Rat(x.num * y.den + y.num * x.den, x.den * y.den)
RatEq(x, y) == x.num * y.den = y.num * x.den
RatGreater(x, y) == x.num * y.den > y.num * x.den

Abs(x) == IF x < 0 THEN -x ELSE x

\* sum over the rows i..Len(rows) that are in I of |(actual - predicted) / actual|
RECURSIVE SumRelErr(_, _, _)
SumRelErr(rows, I, i) ==
    IF i > Len(rows) THEN Rat(0, 1)
    ELSE IF i \in I
    THEN RatAdd(Rat(Abs(rows[i].actual - rows[i].predicted), Abs(rows[i].actual)),
                SumRelErr(rows, I, i + 1))
    ELSE SumRelErr(rows, I, i + 1)

\* sum over the rows i..Len(rows) of |actual - predicted|
RECURSIVE SumAbsErr(_, _)
SumAbsErr(rows, i) ==
    IF i > Len(rows) THEN 0
    ELSE Abs(rows[i].actual - rows[i].predicted) + SumAbsErr(rows, i + 1)

\* np.mean(np.abs((actual[mask] - predicted[mask]) / actual[mask])) * 100
MeanRelErrPercent(rows, I) ==
    Rat(100 * SumRelErr(rows, I, 1).num, SumRelErr(rows, I, 1).den * Cardinality(I))

\* RealARIMAService.calculate_mape
ARIMA_calculate_mape(rows) ==
    LET mask == {i \in 1..Len(rows) : rows[i].actual # 0}
    IN  IF Cardinality(mask) = 0 THEN Fin(Rat(100, 1))
        ELSE Fin(MeanRelErrPercent(rows, mask))

\* calculate_mape nested in fit_xgboost_model
XGBoost_calculate_mape(rows) ==
    LET mask == {i \in 1..Len(rows) : rows[i].actual # 0}
    IN  IF Cardinality(mask) = 0 THEN Fin(Rat(100, 1))
        ELSE Fin(MeanRelErrPercent(rows, mask))

\* the in-sample MAPE of generate_model_diagnostics:
\* np.mean(np.abs((df['y'] - forecast['yhat']) / df['y'])) * 100 divides every
\* row; a row with y = 0 gives NaN when yhat = 0 too and inf otherwise; the
\* mean of a pandas Series leaves NaN out
Prophet_in_sample_mape(rows) ==
    LET all == 1..Len(rows)
        infinite == {i \in all : rows[i].actual = 0 /\ rows[i].predicted # 0}
        numbers == {i \in all : rows[i].actual # 0}
    IN  IF infinite # {} THEN Inf
        ELSE IF numbers = {} THEN NaN
        ELSE Fin(MeanRelErrPercent(rows, numbers))

\* whether a MAPE computation of backend b divides by an actual value of zero
DividesByZero(b, rows) ==
    b = "Prophet" /\ \E i \in 1..Len(rows) : rows[i].actual = 0

\* sklearn's mean_absolute_error
mean_absolute_error(rows) == Rat(SumAbsErr(rows, 1), Len(rows))

\* 'overfitting_check' of fit_xgboost_model:
\* float(val_mae / train_mae) if train_mae > 0 else 1.0, val_mae > train_mae * 1.5
OverfittingCheck(train_mae, val_mae) ==
    [train_val_mae_ratio |->
        IF train_mae.num > 0
        THEN Rat(val_mae.num * train_mae.den, val_mae.den * train_mae.num)
        ELSE Rat(1, 1),
     is_overfitting |-> RatGreater(val_mae, Rat(train_mae.num * 3, train_mae.den * 2))]

\* the actual and the predicted values of a row
ActualVals == {0, 1, 2}
PredictedVals == {0, 2}
MetricRow == [actual : ActualVals, predicted : PredictedVals]

\* what the rest of the rows hold: zero sales predicted as zero, or a sale
\* predicted exactly
MetricPads == {[actual |-> 0, predicted |-> 0], [actual |-> 1, predicted |-> 1]}

\* the rows the diagnostics are computed on: the series and the fitted values
\* (ARIMA, Prophet), the training and the validation partition (XGBoost)
MetricInputs(b) ==
    IF b = "XGBoost"
    THEN {("train" :> SeriesOf(head, pad, SplitIndex(MinPointsXGBoost)))
          @@ ("val" :> SeriesOf(<<v>>, pad, MinPointsXGBoost - SplitIndex(MinPointsXGBoost))) :
            head \in [1..HeadLen -> MetricRow], v \in MetricRow, pad \in MetricPads}
    ELSE {("rows" :> SeriesOf(head, pad, MinPoints(b))) :
            head \in [1..HeadLen -> MetricRow], pad \in MetricPads}

\* the MAPE of the diagnostics of each service
Diagnostics_Mape ==
    /\ pc = "mape"
    /\ IF backend = "ARIMA"
       THEN /\ model_fit' = ("mape" :> ARIMA_calculate_mape(locals["rows"]))
            /\ library' = [library EXCEPT !.zero_division =
                              DividesByZero(backend, locals["rows"])]
            /\ pc' = "reported"
       ELSE IF backend = "Prophet"
       THEN /\ model_fit' = ("diagnostics" :>
                                (("cross_validation" :> FALSE)
                                 @@ ("mape" :> Prophet_in_sample_mape(locals["rows"]))
                                 @@ ("in_sample_only" :> TRUE)))
            /\ library' = [library EXCEPT !.zero_division =
                              DividesByZero(backend, locals["rows"])]
            /\ pc' = "reported"
       ELSE /\ model_fit' =
                  ("train_metrics" :>
                      [mae |-> mean_absolute_error(locals["train"]),
                       mape |-> XGBoost_calculate_mape(locals["train"])])
                  @@ ("validation_metrics" :>
                      [mae |-> mean_absolute_error(locals["val"]),
                       mape |-> XGBoost_calculate_mape(locals["val"])])
            /\ library' = [library EXCEPT !.zero_division =
                              \/ DividesByZero(backend, locals["train"])
                              \/ DividesByZero(backend, locals["val"])]
            /\ pc' = "overfitting_check"
    /\ UNCHANGED <<backend, stdin, now, req, ts, fitted, forecast_result,
                   interval_level, analysis, locals, exc, called, stdout>>

\* 'overfitting_check' of the XGBoost diagnostics
Diagnostics_Overfitting ==
    /\ pc = "overfitting_check"
    /\ model_fit' = ("overfitting_check" :>
                        OverfittingCheck(model_fit["train_metrics"].mae,
                                         model_fit["validation_metrics"].mae))
                    @@ model_fit
    /\ pc' = "reported"
    /\ UNCHANGED <<backend, stdin, now, req, ts, fitted, forecast_result,
                   interval_level, analysis, library, locals, exc, called, stdout>>

InitMetrics ==
    /\ backend \in Backends
    /\ stdin = [kind |-> "object", body |-> EmptyDict]
    /\ locals \in MetricInputs(backend)
    /\ pc = "mape"
    /\ library = [fit |-> NoOutcome, forecast |-> NoOutcome, zero_division |-> FALSE]
    /\ now = 0
    /\ req = EmptyDict
    /\ ts = <<>>
    /\ fitted = TRUE
    /\ model_fit = EmptyDict
    /\ forecast_result = EmptyDict
    /\ interval_level = 0
    /\ analysis = EmptyDict
    /\ exc = NoException
    /\ called = {"fit"}
    /\ stdout = <<>>

NextMetrics ==
    \/ Diagnostics_Mape
    \/ Diagnostics_Overfitting

SpecMetrics == InitMetrics /\ [][NextMetrics]_vars

----------------------------------------------------------------------------
(* Feature engineering of the XGBoost service *)

RECURSIVE GCD(_, _)
GCD(a, b) == IF b = 0 THEN a ELSE GCD(b, a % b)

\* the floats of a frame: a fraction in lowest terms with a positive
\* denominator, +inf and -inf as 1/0 and -1/0, and NaN
Frac(n, d) ==
    LET g == GCD(Abs(n), Abs(d))
    IN  IF d < 0 THEN Rat((-n) \div g, (-d) \div g) ELSE Rat(n \div g, d \div g)
Cell(n, d) == [known |-> TRUE, v |-> Frac(n, d)]
Infinity(sign) == [known |-> TRUE, v |-> Rat(sign, 0)]
NaNCell == [known |-> FALSE, v |-> Rat(0, 1)]

\* a JSON number or null of the request as a float of a frame
AsCell(x) == IF x.known THEN Cell(x.v, 1) ELSE NaNCell

\* the largest s with s * s * den <= num, found by bisection in lo..hi
RECURSIVE FloorSqrt(_, _, _, _)
FloorSqrt(num, den, lo, hi) ==
    IF lo = hi THEN lo
    ELSE LET mid == (lo + hi + 1) \div 2
         IN  IF mid * mid * den <= num
             THEN FloorSqrt(num, den, mid, hi)
             ELSE FloorSqrt(num, den, lo, mid - 1)

\* the calendar fields of pandas' .dt accessor for day number d; day number
\* 0 is Monday 2024-01-01 and the day numbers of the model lie in December
\* 2023 and January 2024
Calendar(d) ==
    [year |-> IF d < 0 THEN 2023 ELSE 2024,
     month |-> IF d < 0 THEN 12 ELSE 1,
     day |-> IF d < 0 THEN d + 32 ELSE d + 1,
     dayofweek |-> d % 7,
     quarter |-> IF d < 0 THEN 4 ELSE 1,
     week_of_year |-> IF d < 0 THEN 52 - ((-d - 1) \div 7) ELSE (d \div 7) + 1]

\* (condition).astype(int)
AsInt(b) == IF b THEN 1 ELSE 0

\* np.sin / np.cos of the Fourier terms, in thousandths (rounded): of
\* 2*pi*dayofweek/7 for dayofweek 0..6, of 2*pi*day/30.5 for day 1..31 and of
\* 2*pi*index/365.25 for index 0..19
FourierMilli ==
    [sin_weekly |-> <<0, 782, 975, 434, -434, -975, -782>>,
     cos_weekly |-> <<1000, 623, -223, -901, -901, -223, 623>>,
     sin_monthly |->
        <<205, 400, 579, 734, 857, 944, 992, 997, 960, 883, 768, 621, 447, 255,
          51, -154, -353, -537, -698, -830, -926, -984, -1000, -973, -906, -800,
          -660, -493, -304, -103, 103>>,
     cos_monthly |->
        <<979, 916, 815, 679, 515, 329, 128, -77, -279, -470, -641, -784, -894,
          -967, -999, -988, -936, -844, -716, -558, -377, -179, 26, 230, 424,
          600, 751, 870, 953, 995, 995>>,
     sin_yearly |->
        <<0, 17, 34, 52, 69, 86, 103, 120, 137, 154, 171, 188, 205, 222, 239,
          255, 272, 288, 305, 321>>,
     cos_yearly |->
        <<1000, 1000, 999, 999, 998, 996, 995, 993, 991, 988, 985, 982, 979, 975,
          971, 967, 962, 958, 952, 947>>]

\* "1. Temporal Features": the calendar fields and the business calendar
TemporalFeatures ==
    <<"year", "month", "day", "dayofweek", "quarter", "week_of_year",
      "is_weekend", "is_month_start", "is_month_end", "is_quarter_end",
      "is_year_end", "is_payday_week">>

TemporalColumns(ds) ==
    LET n == Len(ds)
        at(i) == Calendar(ds[i])
    IN  ("year" :> [i \in 1..n |-> Cell(at(i).year, 1)])
        @@ ("month" :> [i \in 1..n |-> Cell(at(i).month, 1)])
        @@ ("day" :> [i \in 1..n |-> Cell(at(i).day, 1)])
        @@ ("dayofweek" :> [i \in 1..n |-> Cell(at(i).dayofweek, 1)])
        @@ ("quarter" :> [i \in 1..n |-> Cell(at(i).quarter, 1)])
        @@ ("week_of_year" :> [i \in 1..n |-> Cell(at(i).week_of_year, 1)])
        @@ ("is_weekend" :> [i \in 1..n |-> Cell(AsInt(at(i).dayofweek >= 5), 1)])
        @@ ("is_month_start" :> [i \in 1..n |-> Cell(AsInt(at(i).day <= 5), 1)])
        @@ ("is_month_end" :> [i \in 1..n |-> Cell(AsInt(at(i).day >= 25), 1)])
        @@ ("is_quarter_end" :>
               [i \in 1..n |->
                   Cell(AsInt(at(i).month % 3 = 0 /\ at(i).day >= 25), 1)])
        @@ ("is_year_end" :>
               [i \in 1..n |->
                   Cell(AsInt(at(i).month = 12 /\ at(i).day >= 20), 1)])
        @@ ("is_payday_week" :>
               [i \in 1..n |->
                   Cell(AsInt(at(i).day >= 22 \/ at(i).day <= 5), 1)])

\* "2. Statistical Features": lags and rolling statistics, each created only
\* when the frame has more rows than the lag or the window
Lags == <<1, 3, 7, 14, 30>>
Windows == <<3, 7, 14, 30>>
RollingStats == <<"mean", "std", "min", "max">>

Created(n, span) == n > span

LagName(lag) == "lag_" \o ToString(lag)
RollingName(stat, window) == "rolling_" \o stat \o "_" \o ToString(window)

\* df['y'].shift(lag)
Shift(y, lag) == [i \in 1..Len(y) |-> IF i <= lag THEN NaNCell ELSE Cell(y[i - lag], 1)]

RECURSIVE SumOver(_, _, _)
SumOver(y, from, to) == IF from > to THEN 0 ELSE y[from] + SumOver(y, from + 1, to)

RECURSIVE SumSquares(_, _, _)
SumSquares(y, from, to) ==
    IF from > to THEN 0 ELSE y[from] * y[from] + SumSquares(y, from + 1, to)

SetMin(S) == CHOOSE m \in S : \A x \in S : m <= x

\* df['y'].rolling(window, min_periods=1).<stat>() at row i (1-based): the
\* aggregate of the rows max(1, i - window + 1)..i; the sample standard
\* deviation (ddof = 1) of a single observation is NaN, and it is kept in
\* thousandths, rounded down
Rolling(y, window, stat, i) ==
    LET from == Max2(1, i - window + 1)
        k == i - from + 1
        s == SumOver(y, from, i)
        least == SetMin({y[j] : j \in from..i})
        greatest == SetMax({y[j] : j \in from..i})
    IN  IF stat = "mean" THEN Cell(s, k)
        ELSE IF stat = "min" THEN Cell(least, 1)
        ELSE IF stat = "max" THEN Cell(greatest, 1)
        ELSE IF k = 1 THEN NaNCell
        ELSE Cell(FloorSqrt((k * SumSquares(y, from, i) - s * s) * 1000000,
                            k * (k - 1), 0, 1000 * (greatest - least)), 1000)

RECURSIVE LagColumns(_, _)
LagColumns(y, k) ==
    IF k > Len(Lags) THEN EmptyDict
    ELSE (IF Created(Len(y), Lags[k])
          THEN LagName(Lags[k]) :> Shift(y, Lags[k]) ELSE EmptyDict)
         @@ LagColumns(y, k + 1)

RECURSIVE LagNames(_, _)
LagNames(n, k) ==
    IF k > Len(Lags) THEN <<>>
    ELSE (IF Created(n, Lags[k]) THEN <<LagName(Lags[k])>> ELSE <<>>)
         \o LagNames(n, k + 1)

RECURSIVE RollingColumns(_, _)
RollingColumns(y, k) ==
    IF k > Len(Windows) THEN EmptyDict
    ELSE (IF Created(Len(y), Windows[k])
          THEN [name \in {RollingName(RollingStats[j], Windows[k]) :
                            j \in 1..Len(RollingStats)} |->
                   LET stat == CHOOSE st \in {RollingStats[j] : j \in 1..Len(RollingStats)} :
                                   RollingName(st, Windows[k]) = name
                   IN  [i \in 1..Len(y) |-> Rolling(y, Windows[k], stat, i)]]
          ELSE EmptyDict)
         @@ RollingColumns(y, k + 1)

RECURSIVE RollingNames(_, _)
RollingNames(n, k) ==
    IF k > Len(Windows) THEN <<>>
    ELSE (IF Created(n, Windows[k])
          THEN [j \in 1..Len(RollingStats) |-> RollingName(RollingStats[j], Windows[k])]
          ELSE <<>>)
         \o RollingNames(n, k + 1)

\* series.fillna(0)
FillZero(col) == [i \in 1..Len(col) |-> IF col[i].known THEN col[i] ELSE Cell(0, 1)]

\* df['y'].pct_change(periods): y[i] / y[i - periods] - 1 in float arithmetic,
\* where x/0 is +inf or -inf for x # 0 and 0/0 is NaN
pct_change(y, periods) ==
    [i \in 1..Len(y) |->
        IF i <= periods THEN NaNCell
        ELSE LET prior == y[i - periods]
                 current == y[i]
             IN  IF prior # 0 THEN Cell(current - prior, prior)
                 ELSE IF current > 0 THEN Infinity(1)
                 ELSE IF current < 0 THEN Infinity(-1)
                 ELSE NaNCell]

\* "3. Trend Features"
TrendFeatures == <<"trend", "trend_squared", "pct_change_1", "pct_change_7">>

TrendColumns(y) ==
    ("trend" :> [i \in 1..Len(y) |-> Cell(i - 1, 1)])
    @@ ("trend_squared" :> [i \in 1..Len(y) |-> Cell((i - 1) * (i - 1), 1)])
    @@ ("pct_change_1" :> FillZero(pct_change(y, 1)))
    @@ ("pct_change_7" :> FillZero(pct_change(y, 7)))

\* "4. Seasonal Features" and "5. Indonesian Holiday Effects"; the yearly
\* terms and ramadan_proximity (sin(2*pi*index/354) > 0.8) are computed from
\* the 0-based index of the row
SeasonalFeatures ==
    <<"sin_weekly", "cos_weekly", "sin_monthly", "cos_monthly", "sin_yearly",
      "cos_yearly", "is_holiday_season", "ramadan_proximity">>

SeasonalColumns(ds) ==
    LET n == Len(ds)
        at(i) == Calendar(ds[i])
    IN  ("sin_weekly" :>
            [i \in 1..n |-> Cell(FourierMilli.sin_weekly[at(i).dayofweek + 1], 1000)])
        @@ ("cos_weekly" :>
               [i \in 1..n |-> Cell(FourierMilli.cos_weekly[at(i).dayofweek + 1], 1000)])
        @@ ("sin_monthly" :>
               [i \in 1..n |-> Cell(FourierMilli.sin_monthly[at(i).day], 1000)])
        @@ ("cos_monthly" :>
               [i \in 1..n |-> Cell(FourierMilli.cos_monthly[at(i).day], 1000)])
        @@ ("sin_yearly" :> [i \in 1..n |-> Cell(FourierMilli.sin_yearly[i], 1000)])
        @@ ("cos_yearly" :> [i \in 1..n |-> Cell(FourierMilli.cos_yearly[i], 1000)])
        @@ ("is_holiday_season" :>
               [i \in 1..n |->
                   Cell(AsInt(\/ /\ at(i).month = 4
                                 /\ at(i).day >= 8 /\ at(i).day <= 15
                              \/ /\ at(i).month = 6
                                 /\ at(i).day >= 15 /\ at(i).day <= 20
                              \/ /\ at(i).month = 8
                                 /\ at(i).day >= 15 /\ at(i).day <= 20
                              \/ at(i).month = 12 /\ at(i).day >= 20), 1)])
        @@ ("ramadan_proximity" :>
               [i \in 1..n |-> Cell(AsInt(((i - 1) % 354) \in 53..124), 1)])

\* "6. External Features Integration": external_features is a sequence of
\* (name, values) items in the order of the dict; a series is added, row by
\* row as given, when its length is the frame's
ExtName(feature_name) == "ext_" \o feature_name

RECURSIVE ExternalColumns(_, _, _)
ExternalColumns(external_features, n, k) ==
    IF k > Len(external_features) THEN EmptyDict
    ELSE ExternalColumns(external_features, n, k + 1)
         @@ (IF Len(external_features[k].values) = n
             THEN ExtName(external_features[k].name) :>
                     [row \in 1..n |-> AsCell(external_features[k].values[row])]
             ELSE EmptyDict)

RECURSIVE ExternalNames(_, _, _)
ExternalNames(external_features, n, k) ==
    IF k > Len(external_features) THEN <<>>
    ELSE (IF Len(external_features[k].values) = n
          THEN <<ExtName(external_features[k].name)>> ELSE <<>>)
         \o ExternalNames(external_features, n, k + 1)

\* df.fillna(method='ffill').fillna(method='bfill').fillna(0), column by column
FillBackwardFirstMutant(col) == FillZero(ffill(bfill(col)))
FillColumn(col) == FillZero(bfill(ffill(col)))

FillFrame(df) ==
    [df EXCEPT !.data = [c \in DOMAIN df.data |-> FillColumn(df.data[c])]]

\* the frame of prepare_features before its last line: ds, y and the feature
\* columns in the order they are created, for the sort order ord of the rows
DerivedFrame(ds, y, ord, external_features) ==
    LET n == Len(ord)
        sorted_ds == [k \in 1..n |-> ds[ord[k]]]
        sorted_y == [k \in 1..n |-> y[ord[k]].v]
    IN  [ds |-> sorted_ds,
         columns |-> <<"y">> \o TemporalFeatures \o LagNames(n, 1)
                     \o RollingNames(n, 1) \o TrendFeatures \o SeasonalFeatures
                     \o ExternalNames(external_features, n, 1),
         data |-> ("y" :> [k \in 1..n |-> Cell(sorted_y[k], 1)])
                  @@ TemporalColumns(sorted_ds)
                  @@ LagColumns(sorted_y, 1)
                  @@ RollingColumns(sorted_y, 1)
                  @@ TrendColumns(sorted_y)
                  @@ SeasonalColumns(sorted_ds)
                  @@ ExternalColumns(external_features, n, 1)]

\* RealXGBoostService.prepare_features(data_points, dates, external_features)
\* for a series with at least one number: the frames it may return, each
\* with the frame before the last fill and the sort order that was taken; or
\* the exception it raises
prepare_features(data_points, dates, external_features, t) ==
    IF dates # <<>> /\ Len(dates) # Len(data_points)
    THEN {Raised("Exception",
                 "Feature preparation failed: All arrays must be of the same length")}
    ELSE LET ds == IF dates # <<>> THEN dates
                   ELSE SyntheticDates(Len(data_points), t)
             y == FillMissing(data_points)
         IN  {LET derived == DerivedFrame(ds, y, ord, external_features)
              IN  Returned([df |-> FillFrame(derived), derived |-> derived,
                            ord |-> ord])
                : ord \in SortOrders(ds, 1..Len(y))}

\* feature_cols: every column but 'ds' and the target
feature_cols(df) == SelectSeq(df.columns, LAMBDA col : col # "y")

\* self.scaler.fit_transform(X[numerical_features]): the scaler's mean and
\* variance are computed from the first ScalerRows(n) of the n rows of X,
\* which is all of them
ScalerRows(n) == n

\* StandardScaler refuses infinite values
HasInfinity(df) ==
    \E c \in DOMAIN df.data : \E i \in 1..Len(df.data[c]) : df.data[c][i].v.den = 0

\* StandardScaler's transform of the whole number x by the mean and the
\* (population) variance of the first scaler_rows values of the column c of
\* whole numbers: (x - mean) / sqrt(var), which is
\* (k * x - sum) / sqrt(k * sum of squares - sum * sum); a zero variance
\* scales by 1. The float is kept as num / sqrt(sq).
Standardized(df, c, x, scaler_rows) ==
    LET xs == [k \in 1..scaler_rows |-> df.data[c][k].v.num]
        k == Len(xs)
        s == SumOver(xs, 1, k)
        ss == SumSquares(xs, 1, k)
    IN  [num |-> k * x - s,
         sq |-> IF k * ss = s * s THEN k * k ELSE k * ss - s * s]

\* model.feature_importances_: one float per feature, chosen by the library
ImportanceOutcomes(n) == {[i \in 1..n |-> (i * m) % 4] : m \in {1, 3}}

\* dict(zip(self.feature_names, importances)) as its items
feature_importance(feature_names, importances) ==
    [i \in 1..Len(feature_names) |->
        [feature |-> feature_names[i], importance |-> importances[i]]]

\* the vector predict builds for the 0-based step at clock reading t: zeros,
\* with the calendar fields of the forecast date where the model has them
base_features(feature_names, t, step) ==
    LET future_date == Calendar(t + step + 1)
        feature_dict ==
            ("month" :> future_date.month)
            @@ ("dayofweek" :> future_date.dayofweek)
            @@ ("quarter" :> future_date.quarter)
            @@ ("is_weekend" :> AsInt(future_date.dayofweek >= 5))
    IN  [i \in 1..Len(feature_names) |-> Get(feature_dict, feature_names[i], 0)]

\* "# Scale features": base_features.reshape(1, -1) is all that is done, so
\* the values handed to the model are the values of base_features
ScaledForPrediction(vector) == vector

\* x in feature
Contains(feature, x) ==
    \E i \in 1..(Len(feature) - Len(x) + 1) : SubSeq(feature, i, i + Len(x) - 1) = x

\* the if / elif chain of get_feature_analysis
Category(feature) ==
    IF \E x \in {"month", "day", "year", "quarter", "week"} : Contains(feature, x)
    THEN "temporal"
    ELSE IF \E x \in {"lag_", "rolling_", "pct_change"} : Contains(feature, x)
    THEN "statistical"
    ELSE IF \E x \in {"sin_", "cos_", "seasonal", "holiday"} : Contains(feature, x)
    THEN "seasonal"
    ELSE IF \E x \in {"trend", "macd", "rsi"} : Contains(feature, x)
    THEN "trend"
    ELSE IF Len(feature) >= 4 /\ SubSeq(feature, 1, 4) = "ext_" THEN "external"
    ELSE "other"

Categories == {"temporal", "statistical", "seasonal", "trend", "external", "other"}

\* sort(key=importance, reverse=True): stable, equal items keep their order
RECURSIVE InsertDescending(_, _)
InsertDescending(item, sorted) ==
    IF sorted = <<>> THEN <<item>>
    ELSE IF Head(sorted).importance >= item.importance
    THEN <<Head(sorted)>> \o InsertDescending(item, Tail(sorted))
    ELSE <<item>> \o sorted

RECURSIVE SortDescending(_, _)
SortDescending(items, k) ==
    IF k = 0 THEN <<>>
    ELSE InsertDescending(items[k], SortDescending(items, k - 1))

\* RealXGBoostService.get_feature_analysis
get_feature_analysis(items) ==
    IF items = <<>>
    THEN "error" :> "No feature importance available - model not fitted"
    ELSE ("success" :> TRUE)
         @@ ("total_features" :> Len(items))
         @@ ("feature_categories" :>
                [category \in Categories |->
                    LET members == SelectSeq(items,
                                       LAMBDA item : Category(item.feature) = category)
                    IN  SortDescending(members, Len(members))])
         @@ ("top_features" :>
                SubSeq(SortDescending(items, Len(items)), 1,
                       IF Len(items) < 15 THEN Len(items) ELSE 15))

\* the values of the feature pipeline's series, and the request's optional
\* dates: in order, with the first two days swapped, with the first day
\* repeated, and one date too many
FeatureVals == {Missing, Num(-1), Num(0), Num(2)}

FeatureDates(n) ==
    Optional("dates", {DatesOf(<<1, 2>>, n), DatesOf(<<2, 1>>, n),
                       DatesOf(<<1, 1>>, n), DatesOf(<<1, 2>>, n + 1)})

\* external_features: one series that is complete, has a gap after the first
\* value or has one value too many; or a series with a gap and an all-null
\* series
FeatureExternals(n) ==
    LET complete == [k \in 1..n |-> Num(k)]
        gap == [k \in 1..n |-> IF k = 2 THEN Missing ELSE Num(k)]
        empty == [k \in 1..n |-> Missing]
        long == [k \in 1..(n + 1) |-> Num(k)]
    IN  {<<[name |-> "promo", values |-> v]>> : v \in {complete, gap, long}}
        \cup {<<[name |-> "promo", values |-> gap],
                [name |-> "holiday", values |-> empty]>>}

\* the requests the feature pipeline is run on: every head of values without
\* external features, and two heads with every choice of external features
FeatureRequests ==
    LET n == MinPointsXGBoost
    IN  {("data_points" :> SeriesOf(head, Num(2), n)) @@ dt :
            head \in [1..HeadLen -> FeatureVals], dt \in FeatureDates(n)}
        \cup {("data_points" :> SeriesOf(head, Num(2), n)) @@ dt
              @@ ("external_features" :> ext) :
                head \in {[i \in 1..HeadLen |-> Num(2)],
                          [i \in 1..HeadLen |-> IF i = 1 THEN Num(0) ELSE Num(-1)]},
                dt \in FeatureDates(n),
                ext \in FeatureExternals(n)}

\* main(): df = xgboost_service.prepare_features(data_points, dates,
\* external_features)
Features_Prepare ==
    /\ pc = "prepare_features"
    /\ \E t \in ClockReads(backend, Get(req, "dates", <<>>)) :
       \E r \in prepare_features(req["data_points"], Get(req, "dates", <<>>),
                                 Get(req, "external_features", <<>>), t) :
          /\ now' = t
          /\ IF r.ok
             THEN /\ locals' = ("df" :> r.value.df) @@ ("derived" :> r.value.derived)
                               @@ ("ord" :> r.value.ord)
                  /\ pc' = "fit_xgboost_model"
                  /\ UNCHANGED exc
             ELSE /\ exc' = [error_type |-> r.error_type, error |-> r.error]
                  /\ pc' = "raised"
                  /\ UNCHANGED locals
    /\ called' = called \cup {"prepare"}
    /\ UNCHANGED <<backend, stdin, req, ts, fitted, model_fit, forecast_result,
                   interval_level, analysis, library, stdout>>

\* fit_xgboost_model(df): the features are scaled, then split in time order,
\* the model is fitted on the first rows and its importances are stored; the
\* library may raise while the model is fitted
Features_Fit ==
    /\ pc = "fit_xgboost_model"
    /\ LET df == locals["df"]
           n == Len(df.ds)
           split_idx == SplitIndex(n)
       IN  IF HasInfinity(df)
           THEN /\ model_fit' = FitFailure("Input X contains infinity or a value too large for dtype('float64').")
                /\ fitted' = FALSE
                /\ pc' = "fit_failed"
                /\ UNCHANGED <<locals, library>>
           ELSE \E lib \in {l \in FitOutcomes("XGBoost") :
                               /\ l.at \in {"none", "fit"}
                               /\ l.metric_type = "float"
                               /\ l.msg \in {"", "singular matrix"}} :
                \E importances \in ImportanceOutcomes(Len(feature_cols(df))) :
                   /\ library' = [library EXCEPT !.fit = lib]
                   /\ model_fit' = XGBoost_fit_xgboost_model(lib).result
                   /\ fitted' = XGBoost_fit_xgboost_model(lib).fitted
                   /\ locals' =
                         ("feature_names" :> feature_cols(df))
                         @@ ("scaler_rows" :> ScalerRows(n))
                         @@ ("split_idx" :> split_idx)
                         @@ ("train_rows" :> 1..split_idx)
                         @@ ("val_rows" :> (split_idx + 1)..n)
                         @@ ("feature_importance" :>
                                IF lib.raises THEN <<>>
                                ELSE feature_importance(feature_cols(df), importances))
                         @@ locals
                   /\ pc' = IF lib.raises THEN "fit_failed" ELSE "predict"
    /\ called' = called \cup {"fit"}
    /\ UNCHANGED <<backend, stdin, now, req, ts, forecast_result, interval_level,
                   analysis, exc, stdout>>

\* predict(forecast_steps): one vector per step is built and handed to the
\* model, up to the step at which the model raises; the model answers every
\* step in the same way
Features_Predict ==
    /\ pc = "predict"
    /\ \E forecast_steps \in 1..MaxSteps :
       \E t \in now..MaxNow :
       \E lib \in {l \in ForecastOutcomes("XGBoost") :
                      \A i \in 1..PatLen : l.steps[i] = l.steps[1]} :
          LET r == XGBoost_predict(forecast_steps, lib, fitted)
              built == IF StepAt(lib, 1).ok THEN forecast_steps ELSE 1
          IN  /\ now' = t
              /\ library' = [library EXCEPT !.forecast = lib]
              /\ forecast_result' = r.value
              /\ locals' =
                    ("forecast_steps" :> forecast_steps)
                    @@ ("passed" :>
                           [step \in 1..built |->
                               ScaledForPrediction(
                                   base_features(locals["feature_names"], t, step - 1))])
                    @@ locals
    /\ called' = called \cup {"forecast"}
    /\ pc' = "get_feature_analysis"
    /\ UNCHANGED <<backend, stdin, req, ts, fitted, model_fit, interval_level,
                   analysis, exc, stdout>>

\* feature_analysis = xgboost_service.get_feature_analysis()
Features_Analysis ==
    /\ pc = "get_feature_analysis"
    /\ analysis' = analysis @@
          ("feature_analysis" :> get_feature_analysis(locals["feature_importance"]))
    /\ pc' = "analysed"
    /\ UNCHANGED <<backend, stdin, locals, now, req, ts, fitted, model_fit,
                   forecast_result, interval_level, library, exc, called, stdout>>

InitFeatures ==
    /\ backend = "XGBoost"
    /\ stdin = [kind |-> "object", body |-> EmptyDict]
    /\ req \in FeatureRequests
    /\ pc = "prepare_features"
    /\ now = 0
    /\ ts = <<>>
    /\ fitted = FALSE
    /\ model_fit = EmptyDict
    /\ forecast_result = EmptyDict
    /\ interval_level = 0
    /\ analysis = EmptyDict
    /\ library = [fit |-> NoOutcome, forecast |-> NoOutcome]
    /\ exc = NoException
    /\ called = {}
    /\ locals = EmptyDict
    /\ stdout = <<>>

NextFeatures ==
    \/ Features_Prepare
    \/ Features_Fit
    \/ Features_Predict
    \/ Features_Analysis

SpecFeatures == InitFeatures /\ [][NextFeatures]_vars

----------------------------------------------------------------------------
(* Properties *)

\* the points of the forecast result, when the generator produced any
ForecastPoints ==
    IF forecast_result # EmptyDict /\ forecast_result["success"]
    THEN forecast_result["forecasts"] ELSE <<>>

\* C1: every forecast point emitted by forecast / predict of any backend has
\* lower_bound <= forecast <= upper_bound and all three values >= 0,
\* whatever the fitted model returned.
C1_PointsOrderedAndNonNegative ==
    \A i \in 1..Len(ForecastPoints) :
        LET p == ForecastPoints[i]
        IN  /\ p["lower_bound"] <= p["forecast"]
            /\ p["forecast"] <= p["upper_bound"]
            /\ p["lower_bound"] >= 0
            /\ p["forecast"] >= 0
            /\ p["upper_bound"] >= 0

\* main() has a next step: at "prepare" the preparation step has an outcome
\* (a series or an exception), elsewhere some action is enabled
CanStep ==
    IF pc = "prepare"
    THEN \E t \in ClockReads(backend, Get(req, "dates", <<>>)) :
            Prepare(backend, req["data_points"], Get(req, "dates", <<>>), t) # {}
    ELSE ENABLED Next

\* C2: every invocation of main() prints exactly one envelope: nothing is
\* printed before main() ends, main() has a next step until it ends, it never
\* ends on an uncaught exception, and when it has ended exactly one envelope
\* is on stdout.
C2_ExactlyOneEnvelope ==
    /\ pc # "crashed"
    /\ Len(stdout) = (IF pc = "done" THEN 1 ELSE 0)
    /\ pc # "done" => CanStep

\* C2 witness: an exception raised at the last stage (serializing the success
\* envelope, after the forecast) ended in one failure envelope.
C2_Witness ==
    /\ pc = "done"
    /\ "forecast" \in called
    /\ exc.error_type = "TypeError"
    /\ Len(stdout) = 1
    /\ ~stdout[1]["success"]

MentionsInsufficientData(error) ==
    error \in {"Insufficient data points (minimum 10 required)",
               "Insufficient data points (minimum 15 required for XGBoost)",
               "Data preparation failed: Insufficient data points for ARIMA (minimum 10 required)",
               "Data preparation failed: Insufficient data points for Prophet (minimum 10 required)"}

\* the request is a JSON object whose data_points is shorter than the minimum
ShortRequest ==
    /\ stdin.kind = "object"
    /\ Len(Get(stdin.body, "data_points", <<>>)) < MinPoints(backend)

\* C3: a request whose data_points is shorter than the backend minimum never
\* reaches fit or forecast, and its response has success = false, an error
\* that mentions insufficient data, and no forecasts.
C3_ShortRequestRejected ==
    ShortRequest =>
        /\ "fit" \notin called
        /\ "forecast" \notin called
        /\ pc = "done" =>
            /\ Len(stdout) = 1
            /\ stdout[1]["success"] = FALSE
            /\ MentionsInsufficientData(stdout[1]["error"])
            /\ "forecasts" \notin DOMAIN stdout[1]

\* C3 witness: a request one point short of the minimum has been answered.
C3_Witness ==
    /\ ShortRequest
    /\ Len(Get(stdin.body, "data_points", <<>>)) = MinPoints(backend) - 1
    /\ pc = "done"
    /\ Len(stdout) = 1

\* C4: every failure response carries the keys error, error_type and
\* recommendations.
C4_FailureEnvelopeKeys ==
    \A i \in 1..Len(stdout) :
        ~stdout[i]["success"] =>
            {"error", "error_type", "recommendations"} \subseteq DOMAIN stdout[i]

\* C5: a response with top-level success = true holds a successful forecasts
\* sub-result with exactly forecast_steps points, their step fields 1, 2, ...
\* in order, each with forecast >= 0.
C5_SuccessHasAllPoints ==
    \A k \in 1..Len(stdout) :
        stdout[k]["success"] =>
            LET fc == stdout[k]["forecasts"]
                n == RequestedSteps(backend, req)
            IN  /\ fc["success"]
                /\ Len(fc["forecasts"]) = n
                /\ \A i \in 1..n :
                      /\ fc["forecasts"][i]["step"] = i
                      /\ fc["forecasts"][i]["forecast"] >= 0

\* the steps whose values could not be extracted from the model's output
FailingSteps ==
    IF library.forecast = NoOutcome \/ library.forecast.raises THEN {}
    ELSE {i \in 1..RequestedSteps(backend, req) : ~StepAt(library.forecast, i).ok}

\* C6: when the extraction of step i fails, the forecast result is still
\* successful with one point per step; the point of step i is zero-valued and
\* carries its own error, the other points carry none.
C6_StepFailureIsolated ==
    FailingSteps # {} =>
        /\ forecast_result # EmptyDict
        /\ forecast_result["success"]
        /\ Len(forecast_result["forecasts"]) = RequestedSteps(backend, req)
        /\ \A i \in 1..RequestedSteps(backend, req) :
              LET p == forecast_result["forecasts"][i]
              IN  IF i \in FailingSteps
                  THEN /\ "error" \in DOMAIN p
                       /\ p["forecast"] = 0
                       /\ p["lower_bound"] = 0
                       /\ p["upper_bound"] = 0
                  ELSE "error" \notin DOMAIN p

\* the library raised inside fit_*_model and no inner handler took the exception
LibraryRaisedInFit ==
    /\ library.fit # NoOutcome
    /\ library.fit.raises
    /\ ~(backend = "Prophet" /\ library.fit.at = "diagnostics")

\* C7: an exception of the library during fit becomes the result
\* {success = false, error = <its message>, fallback_used = true}; forecast is
\* never invoked after a fit whose success flag is false, and main() answers
\* with a failure response carrying that error.
C7_FitFailureStopsPipeline ==
    /\ LibraryRaisedInFit =>
          /\ model_fit = ("success" :> FALSE) @@ ("error" :> library.fit.msg)
                         @@ ("fallback_used" :> TRUE)
          /\ pc \in {"check_fit", "done"}
          /\ pc = "done" =>
                /\ Len(stdout) = 1
                /\ stdout[1]["success"] = FALSE
                /\ stdout[1]["error"] = library.fit.msg
    /\ (model_fit # EmptyDict /\ ~model_fit["success"]) => "forecast" \notin called

\* C7 witness: the library raised during fit and main() has answered.
C7_Witness ==
    /\ LibraryRaisedInFit
    /\ pc = "done"
    /\ "fit" \in called
    /\ Len(stdout) = 1

\* the input position whose value a filled entry takes: itself when known,
\* else the nearest earlier known position, else the first known position
FillSource(dp, i) ==
    LET known == {j \in 1..Len(dp) : dp[j].known}
    IN  IF i \in known THEN i
        ELSE IF \E j \in known : j < i THEN SetMax({j \in known : j < i})
        ELSE -SetMax({-j : j \in known})

\* the value position i is expected to hold (Prophet stores it clamped at 0)
FilledValue(b, dp, i) ==
    LET x == dp[FillSource(dp, i)]
    IN  IF b = "Prophet" THEN Num(Max2(x.v, 0)) ELSE x

\* the timestamps the input rows carry
InputDates(b, r, t) ==
    IF Get(r, "dates", <<>>) # <<>> THEN r["dates"]
    ELSE IF b = "ARIMA" THEN RangeIndex(Len(r["data_points"]))
    ELSE SyntheticDates(Len(r["data_points"]), t)

HasKnownValue(dp) == \E j \in 1..Len(dp) : dp[j].known

\* C8: for an input of length >= the minimum with at least one value present
\* (and dates, if any, of the same length) preparation returns a series of the
\* input's length with no missing value, in which every missing entry took the
\* nearest earlier known value and leading missing entries the first known
\* value; XGBoost returns these rows in the order of its sort.
C8_PreparedSeriesFilled ==
    LET dp == req["data_points"]
        dates == Get(req, "dates", <<>>)
        n == Len(dp)
    IN  (/\ pc # "call_prepare"
         /\ n >= MinPoints(backend)
         /\ HasKnownValue(dp)
         /\ dates = <<>> \/ Len(dates) = n) =>
            /\ pc = "returned"
            /\ Len(ts) = n
            /\ \A k \in 1..n : ts[k].y.known
            /\ IF backend = "XGBoost"
               THEN \A k \in 1..n :
                      Cardinality({j \in 1..n : ts[j] = ts[k]})
                      = Cardinality({i \in 1..n :
                            [ds |-> InputDates(backend, req, now)[i],
                             y |-> FilledValue(backend, dp, i)] = ts[k]})
               ELSE \A k \in 1..n : ts[k].y = FilledValue(backend, dp, k)

\* C8 witness: a series with a leading gap, a known value and a trailing gap
\* has been prepared.
C8_Witness ==
    LET dp == req["data_points"]
    IN  /\ pc = "returned"
        /\ ~dp[1].known
        /\ dp[2].known
        /\ ~dp[Len(dp)].known
        /\ Len(ts) = Len(dp)

\* C9: the prepared series has a strictly increasing index (so no duplicate
\* timestamps) and only non-negative values.
C9_IndexIncreasingValuesNonNegative ==
    pc = "returned" =>
        /\ \A i \in 1..Len(ts) : \A j \in 1..Len(ts) :
              i < j => ts[i].ds < ts[j].ds
        /\ \A i \in 1..Len(ts) : ts[i].y.known => ts[i].y.v >= 0

\* C10: the confidence level reported with every forecast point is the
\* request's confidence_level (0.95 when omitted) and the bounds were computed
\* at that level.
C10_ReportedConfidenceIsRequested ==
    \A i \in 1..Len(ForecastPoints) :
        /\ "confidence_level" \in DOMAIN ForecastPoints[i]
        /\ ForecastPoints[i]["confidence_level"] = RequestedConfidence(req)
        /\ interval_level = RequestedConfidence(req)

\* C11: a run whose fit and forecast both succeeded serializes its envelope
\* without an exception and answers with the success envelope: every value of
\* the envelope is plain, or is made plain by the encoder, when it is printed.
C11_SuccessfulRunEmitsSuccess ==
    (/\ forecast_result # EmptyDict
     /\ forecast_result["success"]) =>
        /\ exc = NoException
        /\ pc = "done" => (Len(stdout) = 1 /\ stdout[1]["success"])

\* the library raised while the diagnostics of the fitted model were computed
DiagnosticsFailed ==
    /\ library.fit # NoOutcome
    /\ library.fit.raises
    /\ library.fit.at = "diagnostics"

\* C12: a failure while the diagnostics or quality metrics are computed, after
\* the model was fitted, does not fail the request: the fit result is
\* successful, the pipeline goes on to forecast and no failure response is
\* printed for it; a failing stationarity test is flagged likewise.
C12_DiagnosticsFailureDoesNotFail ==
    /\ DiagnosticsFailed =>
          /\ model_fit["success"]
          /\ pc = "done" => "forecast" \in called
    /\ ("stationarity" \in DOMAIN analysis /\ analysis["stationarity"].failed) =>
          pc # "except"

\* C13: without dates in the request, the prepared series carries a daily
\* timestamp sequence of the input's length whose last element is the current
\* time.
C13_SyntheticDatesEndNow ==
    (pc = "returned" /\ Get(req, "dates", <<>>) = <<>>) =>
        /\ Len(ts) = Len(req["data_points"])
        /\ ts[Len(ts)].ds = now
        /\ \A i \in 1..(Len(ts) - 1) : ts[i + 1].ds = ts[i].ds + 1

\* simple_arima_grid_search has returned (pmdarima is not installed)
GridSearchReturned ==
    /\ backend = "ARIMA"
    /\ "auto_result" \in DOMAIN locals
    /\ ~locals["PMDARIMA_AVAILABLE"]

\* the candidate that was the first to fit with AIC a
FirstWith(a) ==
    Candidate(library.search.first[a], locals["seasonal"], locals["m"])

\* some candidate fitted
SomeFitted == \E a \in AicVals : library.search.first[a] # 0

\* the lowest AIC a candidate fitted with
LowestAic ==
    CHOOSE a \in AicVals :
        /\ library.search.first[a] # 0
        /\ \A b \in AicVals : library.search.first[b] # 0 => a <= b

\* C14: whatever candidates fail and whatever AIC the others get, the grid
\* search tries every candidate of the grid, raises nothing, and returns an
\* AIC that is <= the AIC of every candidate that fitted; when one candidate
\* alone has that AIC, the returned order and seasonal order are its own.
C14_GridSearchReturnsLowestAic ==
    GridSearchReturned =>
        /\ locals["k"] = GridSize(locals["seasonal"], locals["m"]) + 1
        /\ exc = NoException
        /\ SomeFitted =>
              LET res == locals["auto_result"]
              IN  /\ res["aic"] \in {Fin(a) : a \in AicVals}
                  /\ library.search.first[res["aic"].v] # 0
                  /\ \A a \in AicVals :
                        library.search.first[a] # 0 => res["aic"].v <= a
                  /\ ~library.search.again[res["aic"].v] =>
                        /\ res["order"] = FirstWith(res["aic"].v).order
                        /\ res["seasonal_order"] = FirstWith(res["aic"].v).seasonal_order

\* C14 witness: a candidate failed, a candidate fitted with the higher AIC and
\* a later one with the lower AIC, and the search has returned.
C14_Witness ==
    /\ GridSearchReturned
    /\ library.search.failed
    /\ library.search.first[2] # 0
    /\ library.search.first[-1] > library.search.first[2]
    /\ locals["auto_result"]["aic"] = Fin(-1)

\* C15: when several candidates fitted with the lowest AIC, the search returns
\* the one that comes first in the iteration order p, d, q, seasonal order.
C15_FirstOfTiedCandidatesWins ==
    (GridSearchReturned /\ SomeFitted /\ library.search.again[LowestAic]) =>
        /\ locals["auto_result"]["order"] = FirstWith(LowestAic).order
        /\ locals["auto_result"]["seasonal_order"] = FirstWith(LowestAic).seasonal_order

\* C15 witness: two candidates of the seasonal grid fitted with the lowest AIC,
\* the first of them after a candidate with a higher AIC.
C15_Witness ==
    /\ GridSearchReturned
    /\ locals["seasonal"]
    /\ library.search.again[-1]
    /\ library.search.first[2] # 0
    /\ library.search.first[-1] > library.search.first[2]

\* C16: when every candidate of the grid search failed to fit, the result of
\* the configuration search has order (1,1,1) and carries fallback = true.
C16_AllFailedFlagsFallback ==
    (GridSearchReturned /\ ~SomeFitted) =>
        /\ locals["auto_result"]["order"] = <<1, 1, 1>>
        /\ "fallback" \in DOMAIN locals["auto_result"]
        /\ locals["auto_result"]["fallback"] = TRUE

\* C17: an exception inside the configuration search (auto_arima for ARIMA,
\* cross_val_score for XGBoost) raises nothing out of the search: ARIMA's
\* selection yields order (1,1,1), XGBoost's optimization yields no preset, the
\* fit goes on and is made with order (1,1,1) / the default hyperparameters.
C17_SearchFailureUsesDefault ==
    library.search.raised =>
        /\ exc = NoException
        /\ pc \in {"selected", "create_model", "fitted"}
        /\ backend = "ARIMA" => locals["auto_result"]["order"] = <<1, 1, 1>>
        /\ backend = "XGBoost" => locals["best_params"] = None
        /\ pc # "fitted" => ENABLED NextSelect
        /\ pc = "fitted" =>
              /\ "fit" \in called
              /\ backend = "ARIMA" => locals["order"] = <<1, 1, 1>>
              /\ backend = "XGBoost" =>
                    locals["hyperparameters"] = DefaultHyperparameters

\* C17 witness: XGBoost's preset optimization raised on its second preset and
\* the model was then fitted successfully.
C17_Witness ==
    /\ backend = "XGBoost"
    /\ library.search.raised
    /\ Len(library.search.scores) = 2
    /\ pc = "fitted"
    /\ model_fit["success"]

\* the first preset with the lowest score among the presets that got a
\* number as score (0: no preset got one)
LowestScored(scores) ==
    LET scored == {i \in 1..Len(scores) : scores[i].kind = "finite"}
        lowest == {i \in scored : \A j \in scored : scores[i].v <= scores[j].v}
    IN  IF scored = {} THEN 0 ELSE -SetMax({-i : i \in lowest})

\* C18: the preset search runs only when optimization is requested and the
\* training partition has more than 30 rows; it then scores exactly the 3
\* presets and selects the first preset with the lowest score; otherwise, or
\* when no preset is selected, the model is created with the default preset.
C18_PresetSearch ==
    (backend = "XGBoost" /\ pc \in {"create_model", "fitted"}) =>
        /\ IF locals["optimize_params"] /\ locals["n_train"] > 30
           THEN ~library.search.raised =>
                   /\ Len(library.search.scores) = 3
                   /\ Len(param_grid) = 3
                   /\ locals["best_params"] =
                         (IF LowestScored(library.search.scores) = 0 THEN None
                          ELSE param_grid[LowestScored(library.search.scores)])
           ELSE /\ library.search.scores = <<>>
                /\ "optimize_hyperparameters" \notin called
                /\ locals["best_params"] = None
        /\ pc = "fitted" =>
              locals["hyperparameters"] =
                 (IF locals["best_params"] = None THEN DefaultHyperparameters
                  ELSE locals["best_params"])

\* C18 witness: on a frame of 39 rows the second and third preset tied for the
\* lowest score and the model was created with the second preset.
C18_Witness ==
    /\ backend = "XGBoost"
    /\ pc = "fitted"
    /\ locals["n_train"] = 31
    /\ library.search.scores = <<Fin(2), Fin(1), Fin(1)>>
    /\ locals["hyperparameters"] = param_grid[2]

\* the MAPE values reported, each with the rows it was computed on
ReportedMapes ==
    IF backend = "ARIMA" THEN {[mape |-> model_fit["mape"], rows |-> locals["rows"]]}
    ELSE IF backend = "Prophet"
    THEN {[mape |-> model_fit["diagnostics"]["mape"], rows |-> locals["rows"]]}
    ELSE {[mape |-> model_fit["train_metrics"].mape, rows |-> locals["train"]],
          [mape |-> model_fit["validation_metrics"].mape, rows |-> locals["val"]]}

\* the rows with a non-zero actual value
Comparable(rows) == SelectSeq(rows, LAMBDA r : r.actual # 0)

\* C19: in every backend the MAPE is the mean of |actual - predicted| / |actual|
\* in percent over the rows whose actual value is not zero, and 100 when
\* there is no such row; no computation divides by a zero actual value.
C19_MapeSkipsZeroActuals ==
    pc \in {"overfitting_check", "reported"} =>
        /\ ~library.zero_division
        /\ \A m \in ReportedMapes :
              /\ m.mape.kind = "finite"
              /\ LET rows == Comparable(m.rows)
                 IN  IF Len(rows) = 0 THEN RatEq(m.mape.v, Rat(100, 1))
                     ELSE RatEq(m.mape.v,
                                Rat(100 * SumRelErr(rows, 1..Len(rows), 1).num,
                                    SumRelErr(rows, 1..Len(rows), 1).den * Len(rows)))

\* C20: for every training and validation MAE the reported
\* train_val_mae_ratio is validation MAE / training MAE, and is_overfitting
\* is true exactly when the reported ratio is > 1.5.
C20_OverfittingFollowsRatio ==
    (pc = "reported" /\ backend = "XGBoost") =>
        LET check == model_fit["overfitting_check"]
            train_mae == model_fit["train_metrics"].mae
            val_mae == model_fit["validation_metrics"].mae
        IN  /\ train_mae.num # 0 =>
                  check.train_val_mae_ratio.num * val_mae.den * train_mae.num
                  = val_mae.num * train_mae.den * check.train_val_mae_ratio.den
            /\ check.is_overfitting
               <=> RatGreater(check.train_val_mae_ratio, Rat(3, 2))

\* C26: the frame the tree backend's preparation returns has only non-negative
\* target values and its rows are in time order, whatever the input values
\* and the order of the dates.
C26_TreeFrameClampedAndSorted ==
    (pc = "returned" /\ backend = "XGBoost") =>
        /\ \A i \in 1..Len(ts) : ts[i].y.known /\ ts[i].y.v >= 0
        /\ \A i \in 1..Len(ts) : \A j \in 1..Len(ts) :
              i < j => ts[i].ds <= ts[j].ds

\* the keyword arguments the fitted regressor was built with
FinalRegressor == locals["hyperparameters"]

\* C27: on every path of fit_xgboost_model the regressor that is fitted is
\* built with random_state 42 and with the objective and the sampling
\* fractions of the regressors scored in cross-validation.
C27_FinalRegressorSeededLikeCrossValidation ==
    (pc = "fitted" /\ backend = "XGBoost") =>
        \A key \in {"random_state", "objective", "subsample", "colsample_bytree"} :
            /\ key \in DOMAIN FinalRegressor
            /\ FinalRegressor[key] = cross_validation_model(param_grid[1])[key]

\* C28: an ARIMA request with seasonal = true that passed the validation and
\* the stationarity check gets a seasonal_analysis entry (a result, or
\* success = false with an error) and main() goes on to the fit; the seasonal
\* analysis never ends the request with an exception.
C28_SeasonalAnalysisDoesNotFailRequest ==
    (/\ backend = "ARIMA"
     /\ Get(req, "seasonal", FALSE)
     /\ "check_stationarity" \in called
     /\ pc # "seasonal") =>
        /\ "seasonal_analysis" \in DOMAIN analysis
        /\ pc = "done" => "fit" \in called

\* the frame prepare_features returned, and the frame before its last fill
Frame == locals["df"]
Derived == locals["derived"]
HasFrame == "df" \in DOMAIN locals
FrameRowCount == Len(Frame.ds)

\* two floats num / sqrt(sq) are the same number
SameFloat(a, b) ==
    /\ (a.num > 0) = (b.num > 0)
    /\ (a.num < 0) = (b.num < 0)
    /\ a.num * a.num * b.sq = b.num * b.num * a.sq

\* the columns of whole numbers, and those of whole numbers of at most 7
WholeColumn(df, c) == \A i \in 1..Len(df.data[c]) : df.data[c][i].v.den = 1
SmallColumn(df, c) ==
    \A i \in 1..Len(df.data[c]) :
        df.data[c][i].v.den = 1 /\ Abs(df.data[c][i].v.num) <= 7

\* the frame with column c of row i raised by one
WithOtherValue(df, c, i) ==
    [df EXCEPT !.data[c][i] = Cell(df.data[c][i].v.num + 1, 1)]

\* C21: the rows of the frame are in time order, the training rows are the
\* first floor(0.8 * n) of them and the validation rows the rest, and no
\* training input depends on a validation row: with another value in any
\* validation row the scaled training inputs are the same numbers.
C21_TimeOrderedSplitWithoutLeakage ==
    "split_idx" \in DOMAIN locals =>
        /\ \A i \in 1..FrameRowCount : \A j \in 1..FrameRowCount :
              i < j => Frame.ds[i] <= Frame.ds[j]
        /\ locals["train_rows"] = 1..((FrameRowCount * 8) \div 10)
        /\ locals["val_rows"] = (1..FrameRowCount) \ locals["train_rows"]
        /\ \A k \in 1..Len(locals["feature_names"]) :
              LET c == locals["feature_names"][k]
              IN  SmallColumn(Frame, c) =>
                     \A v \in locals["val_rows"] : \A j \in locals["train_rows"] :
                        SameFloat(Standardized(Frame, c, Frame.data[c][j].v.num,
                                               locals["scaler_rows"]),
                                  Standardized(WithOtherValue(Frame, c, v), c,
                                               Frame.data[c][j].v.num,
                                               locals["scaler_rows"]))

\* the whole numbers of the target column of the frame
TargetValues == [i \in 1..FrameRowCount |-> Frame.data["y"][i].v.num]

\* the float q is the square root, in thousandths rounded down, of the
\* sample variance of the first i values of y
IsSampleStd(q, y, i) ==
    LET s == (q.num * 1000) \div q.den
        spread == i * SumSquares(y, 1, i) - SumOver(y, 1, i) * SumOver(y, 1, i)
    IN  /\ q.den # 0
        /\ s * s * i * (i - 1) <= spread * 1000000
        /\ spread * 1000000 < (s + 1) * (s + 1) * i * (i - 1)

\* C22: for every window w of {3, 7, 14, 30} and every row i < w of a frame
\* the tree backend accepted, the rolling mean, std, min and max columns of
\* window w exist and hold at row i the aggregate of the i + 1 observations
\* available so far (the std where two observations are available).
C22_RollingFeaturesForEveryWindow ==
    HasFrame =>
        \A k \in 1..Len(Windows) :
            LET w == Windows[k]
                y == TargetValues
            IN  /\ \A j \in 1..Len(RollingStats) :
                      RollingName(RollingStats[j], w) \in DOMAIN Frame.data
                /\ \A i \in 1..FrameRowCount :
                      i <= w =>
                         /\ Frame.data[RollingName("mean", w)][i]
                               = Cell(SumOver(y, 1, i), i)
                         /\ Frame.data[RollingName("min", w)][i]
                               = Cell(SetMin({y[j] : j \in 1..i}), 1)
                         /\ Frame.data[RollingName("max", w)][i]
                               = Cell(SetMax({y[j] : j \in 1..i}), 1)
                         /\ i >= 2 =>
                               IsSampleStd(Frame.data[RollingName("std", w)][i].v, y, i)

\* the value the fill gives row i of a column: its own when it has one, else
\* that of the nearest earlier row that has one, else that of the nearest
\* later row that has one, else zero
FilledFrom(col, i) ==
    LET earlier == {j \in 1..(i - 1) : col[j].known}
        later == {j \in (i + 1)..Len(col) : col[j].known}
    IN  IF col[i].known THEN col[i]
        ELSE IF earlier # {} THEN col[SetMax(earlier)]
        ELSE IF later # {} THEN col[SetMin(later)]
        ELSE Cell(0, 1)

\* C23: every column of the frame prepare_features returns has the length of
\* the series and a value in every row; a gap left by the derivation holds
\* the value of the previous row that has one, else of the next row that has
\* one, else zero.
C23_FrameFilledInPriorityOrder ==
    HasFrame =>
        /\ FrameRowCount = Len(req["data_points"])
        /\ DOMAIN Frame.data = {Frame.columns[k] : k \in 1..Len(Frame.columns)}
        /\ \A c \in DOMAIN Frame.data :
              /\ Len(Frame.data[c]) = Len(req["data_points"])
              /\ \A i \in 1..Len(Frame.data[c]) :
                    /\ Frame.data[c][i].known
                    /\ Frame.data[c][i] = FilledFrom(Derived.data[c], i)

\* C23 witness: a frame was returned in which one gap was filled from the
\* previous row, one from the next row and one column had no value at all.
C23_Witness ==
    /\ pc = "fit_xgboost_model"
    /\ "ext_promo" \in DOMAIN Derived.data
    /\ Derived.data["ext_promo"][1].known
    /\ ~Derived.data["ext_promo"][2].known
    /\ Frame.data["ext_promo"][2] = Derived.data["ext_promo"][1]
    /\ ~Derived.data["lag_1"][1].known
    /\ Frame.data["lag_1"][1] = Derived.data["lag_1"][2]
    /\ "ext_holiday" \in DOMAIN Derived.data
    /\ \A i \in 1..FrameRowCount : ~Derived.data["ext_holiday"][i].known
    /\ \A i \in 1..FrameRowCount : Frame.data["ext_holiday"][i] = Cell(0, 1)

\* C24: pct_change_1 and pct_change_7 are 0 at every row where the change is
\* undefined: where there is no row 1 or 7 rows back, and where the value of
\* that row is zero.
C24_PercentChangeZeroWhereUndefined ==
    HasFrame =>
        \A periods \in {1, 7} :
            \A i \in 1..FrameRowCount :
                (i <= periods \/ TargetValues[i - periods] = 0) =>
                    Frame.data["pct_change_" \o ToString(periods)][i] = Cell(0, 1)

\* the family of a feature in the feature engineering of prepare_features
Family(feature) ==
    IF \E k \in 1..Len(TemporalFeatures) : TemporalFeatures[k] = feature
    THEN "temporal"
    ELSE IF \/ \E k \in 1..Len(Lags) : LagName(Lags[k]) = feature
            \/ \E k \in 1..Len(Windows) : \E j \in 1..Len(RollingStats) :
                  RollingName(RollingStats[j], Windows[k]) = feature
            \/ feature \in {"pct_change_1", "pct_change_7"}
    THEN "statistical"
    ELSE IF \E k \in 1..Len(SeasonalFeatures) : SeasonalFeatures[k] = feature
    THEN "seasonal"
    ELSE IF feature \in {"trend", "trend_squared", "macd", "rsi"}
    THEN "trend"
    ELSE "external"

FeatureCategories == analysis["feature_analysis"]["feature_categories"]

\* C25: get_feature_analysis lists every feature in exactly one category, the
\* category of its family (sine/cosine and holiday features seasonal, lag,
\* rolling and percent-change features statistical, trend features trend,
\* ext_ features external, calendar fields temporal), and every category list
\* is sorted by importance, descending.
C25_FeaturesGroupedByFamily ==
    "feature_analysis" \in DOMAIN analysis =>
        /\ \A k \in 1..Len(locals["feature_importance"]) :
              LET item == locals["feature_importance"][k]
              IN  /\ \E i \in 1..Len(FeatureCategories[Family(item.feature)]) :
                        FeatureCategories[Family(item.feature)][i] = item
                  /\ Cardinality({<<category, i>> \in
                                     Categories \X (1..Len(locals["feature_importance"])) :
                                        /\ i <= Len(FeatureCategories[category])
                                        /\ FeatureCategories[category][i].feature
                                              = item.feature}) = 1
        /\ \A category \in Categories :
              \A i \in 1..Len(FeatureCategories[category]) :
                 \A j \in 1..Len(FeatureCategories[category]) :
                    i < j => FeatureCategories[category][i].importance
                                >= FeatureCategories[category][j].importance

\* C29: every component of every vector predict hands to the model is the
\* scaler's transform of the value predict computed for it, as the rows the
\* model was trained on are the scaler's transform of the frame's values.
C29_PredictionVectorScaledLikeTraining ==
    "passed" \in DOMAIN locals =>
        \A step \in 1..Len(locals["passed"]) :
            \A k \in 1..Len(locals["feature_names"]) :
                LET c == locals["feature_names"][k]
                    x == base_features(locals["feature_names"], now, step - 1)[k]
                IN  WholeColumn(Frame, c) =>
                        SameFloat([num |-> locals["passed"][step][k], sq |-> 1],
                                  Standardized(Frame, c, x, locals["scaler_rows"]))

\* C30: an external series as long as the series is in the frame and each of
\* its values is in the row of the data point at the same input position,
\* whatever the order of the dates; a series of another length is not in the
\* frame.
C30_ExternalValuesStayWithTheirDataPoint ==
    HasFrame =>
        \A k \in 1..Len(Get(req, "external_features", <<>>)) :
            LET item == req["external_features"][k]
            IN  IF Len(item.values) = Len(req["data_points"])
                THEN /\ ExtName(item.name) \in DOMAIN Derived.data
                     /\ \A row \in 1..FrameRowCount :
                           Derived.data[ExtName(item.name)][row]
                              = AsCell(item.values[locals["ord"][row]])
                ELSE ExtName(item.name) \notin DOMAIN Derived.data

====
